---------------------------- MODULE Spec2Model ----------------------------
(***************************************************************************)
(* Model of the chess core of src/chess_with_elysia.cpp: Board (grid,      *)
(* castling flags, en-passant target, undo history), MovesGen (pseudo-     *)
(* legal move enumeration), ScoreEvaluator, BestMoveGen (sequential        *)
(* alpha-beta) and BestMoveGenParallel (chunked root search); and of the   *)
(* earlier program of src/unnamed/part_000 (ChessBoard, gen_one_side_moves, *)
(* min_max, gen_best_move), which has its own section below.               *)
(*                                                                         *)
(* Board::data is a std::string of 148 chars; it is modelled as a function *)
(* from 0..147 to character codes, so that the char arithmetic of the      *)
(* flag and en-passant cells (r + '0', data[i] - '0') is the code's own.   *)
(***************************************************************************)
EXTENDS Integers, Sequences, FiniteSets, TLC

(***************************************************************************)
(* Pieces (character codes of the Piece constants).                        *)
(***************************************************************************)
P_UP == 80
P_UR == 82
P_UN == 78
P_UB == 66
P_UQ == 81
P_UK == 75
P_DP == 112
P_DR == 114
P_DN == 110
P_DB == 98
P_DQ == 113
P_DK == 107
P_EE == 46
P_EO == 35

\* '0', the base of the flag and en-passant cells
CH_0 == 48

width == 12
line_begin == 2
line_end == 9
upper_pawn_begin_row == 3
upper_pawn_promote_row == 9
down_pawn_begin_row == 8
down_pawn_promote_row == 2

upper_king_start_pos == 30
down_king_start_pos == 114
upper_castle_flag_pos == 144
down_castle_flag_pos == 145
en_passant_row_pos == 146
en_passant_col_pos == 147

Pos(r, c) == [row |-> r, col |-> c]

\* Move(from, to, moveType) leaves promoteP at P_EO
Move3(from, to, moveType) ==
    [from |-> from, to |-> to, moveType |-> moveType, promoteP |-> P_EO]

Move4(from, to, moveType, promoteP) ==
    [from |-> from, to |-> to, moveType |-> moveType, promoteP |-> promoteP]

\* Move(): the sentinel
InvalidMove == [from |-> Pos(0, 0), to |-> Pos(0, 0), moveType |-> "invalid", promoteP |-> P_EO]

piece_type(p) ==
    CASE p = P_UP \/ p = P_DP -> "pawn"
      [] p = P_UR \/ p = P_DR -> "rook"
      [] p = P_UN \/ p = P_DN -> "knight"
      [] p = P_UB \/ p = P_DB -> "bishop"
      [] p = P_UQ \/ p = P_DQ -> "queen"
      [] p = P_UK \/ p = P_DK -> "king"
      [] p = P_EE -> "empty"
      [] OTHER -> "out"

UpperPieces == {P_UP, P_UR, P_UN, P_UB, P_UQ, P_UK}
DownPieces == {P_DP, P_DR, P_DN, P_DB, P_DQ, P_DK}

piece_side(p) ==
    IF p \in UpperPieces THEN "upper"
    ELSE IF p \in DownPieces THEN "down"
    ELSE "extra"

(***************************************************************************)
(* Board                                                                   *)
(***************************************************************************)
RowO == <<P_EO, P_EO, P_EO, P_EO, P_EO, P_EO, P_EO, P_EO, P_EO, P_EO, P_EO, P_EO>>
RowE == <<P_EO, P_EO, P_EE, P_EE, P_EE, P_EE, P_EE, P_EE, P_EE, P_EE, P_EO, P_EO>>

\* the string literal of Board::reset, as a sequence
InitialLayout ==
    RowO \o RowO
    \o <<P_EO, P_EO, P_UR, P_UN, P_UB, P_UQ, P_UK, P_UB, P_UN, P_UR, P_EO, P_EO>>
    \o <<P_EO, P_EO, P_UP, P_UP, P_UP, P_UP, P_UP, P_UP, P_UP, P_UP, P_EO, P_EO>>
    \o RowE \o RowE \o RowE \o RowE
    \o <<P_EO, P_EO, P_DP, P_DP, P_DP, P_DP, P_DP, P_DP, P_DP, P_DP, P_EO, P_EO>>
    \o <<P_EO, P_EO, P_DR, P_DN, P_DB, P_DQ, P_DK, P_DB, P_DN, P_DR, P_EO, P_EO>>
    \o RowO \o RowO
    \o <<CH_0 + 1, CH_0 + 1, CH_0, CH_0>>

\* Board::reset (and the constructor): the initial string, an empty history
reset == [data |-> [i \in 0..147 |-> InitialLayout[i + 1]], history |-> <<>>]

get(board, r, c) == board.data[r * width + c]

getp(board, pos) == get(board, pos.row, pos.col)

\* the private setters work on the string
set(data, r, c, p) == [data EXCEPT ![r * width + c] = p]

get_upper_castle_flag(board) == board.data[upper_castle_flag_pos] - CH_0 # 0

get_down_castle_flag(board) == board.data[down_castle_flag_pos] - CH_0 # 0

set_upper_castle_flag(data, flag) ==
    [data EXCEPT ![upper_castle_flag_pos] = IF flag THEN CH_0 + 1 ELSE CH_0]

set_down_castle_flag(data, flag) ==
    [data EXCEPT ![down_castle_flag_pos] = IF flag THEN CH_0 + 1 ELSE CH_0]

\* the cells are chars: r + '0' is stored modulo 256
set_en_passant_pos(data, r, c) ==
    [data EXCEPT ![en_passant_row_pos] = (r + CH_0) % 256,
                 ![en_passant_col_pos] = (c + CH_0) % 256]

reset_en_passant_pos(data) == set_en_passant_pos(data, 0, 0)

\* string_view{ data + start, len } == pattern
view_eq(board, start, pattern) ==
    \A i \in 1..Len(pattern) : board.data[start + i - 1] = pattern[i]

can_upper_short_castle(board) ==
    IF get_upper_castle_flag(board)
    THEN view_eq(board, upper_king_start_pos + 1, <<P_EE, P_EE, P_UR>>)
    ELSE FALSE

can_upper_long_castle(board) ==
    IF get_upper_castle_flag(board)
    THEN view_eq(board, upper_king_start_pos - 4, <<P_UR, P_EE, P_EE, P_EE>>)
    ELSE FALSE

\* can_down_short_castle without the test of the flag
can_down_short_castle_unflagged(board) ==
    view_eq(board, down_king_start_pos + 1, <<P_EE, P_EE, P_DR>>)

can_down_short_castle(board) ==
    IF get_down_castle_flag(board)
    THEN view_eq(board, down_king_start_pos + 1, <<P_EE, P_EE, P_DR>>)
    ELSE FALSE

can_down_long_castle(board) ==
    IF get_down_castle_flag(board)
    THEN view_eq(board, down_king_start_pos - 4, <<P_DR, P_EE, P_EE, P_EE>>)
    ELSE FALSE

has_chance_to_do_en_passant(board) ==
    board.data[en_passant_row_pos] # CH_0 /\ board.data[en_passant_col_pos] # CH_0

en_passant_pos(board) ==
    Pos(line_begin + board.data[en_passant_row_pos] - CH_0,
        line_begin + board.data[en_passant_col_pos] - CH_0)

\* the pawn_2_steps branch of Board::move: the neighbours are read on the
\* row of mv.from, after the pawn has been relocated
move_pawn_2_steps(data, mv, fromP) ==
    LET reversePawn == IF piece_side(fromP) = "upper" THEN P_DP ELSE P_UP
    IN  IF data[mv.from.row * width + mv.from.col - 1] = reversePawn
        THEN set_en_passant_pos(data, mv.from.row, mv.from.col - 1)
        ELSE IF data[mv.from.row * width + mv.from.col + 1] = reversePawn
        THEN set_en_passant_pos(data, mv.from.row, mv.from.col + 1)
        ELSE data

\* a king test that also revokes the rights when a rook moves
move_castle_flags_rook_too(data, fromP) ==
    IF fromP = P_UK \/ fromP = P_UR THEN set_upper_castle_flag(data, FALSE)
    ELSE IF fromP = P_DK \/ fromP = P_DR THEN set_down_castle_flag(data, FALSE)
    ELSE data

\* flags that only the upper king's moves clear
move_castle_flags_upper_only(data, fromP) ==
    IF fromP = P_UK THEN set_upper_castle_flag(data, FALSE) ELSE data

\* the king test of Board::move
move_castle_flags(data, fromP) ==
    IF fromP = P_UK THEN set_upper_castle_flag(data, FALSE)
    ELSE IF fromP = P_DK THEN set_down_castle_flag(data, FALSE)
    ELSE data

\* an en-passant branch that empties the destination square
en_passant_capture_on_to(data, mv) == set(data, mv.to.row, mv.to.col, P_EE)

\* the en_passant branch of Board::move: set(mv.from.row, mv.to.col, P_EE)
en_passant_capture(data, mv) == set(data, mv.from.row, mv.to.col, P_EE)

\* a castling that copies the rook and leaves it on its origin too
castle_rook_copy(data, r, rookCol, toCol) ==
    set(data, r, toCol, data[r * width + rookCol])

\* the two set calls of a castling branch of Board::move: the piece on
\* (r, rookCol) goes to (r, toCol) and (r, rookCol) is emptied
castle_rook(data, r, rookCol, toCol) ==
    set(set(data, r, toCol, data[r * width + rookCol]), r, rookCol, P_EE)

\* Board::move on the string, after the snapshot has been taken
move_data(data0, mv) ==
    LET fromP == data0[mv.from.row * width + mv.from.col]
        d1 == reset_en_passant_pos(data0)
    IN  IF mv.moveType = "pawn_move_and_promote"
        THEN set(set(d1, mv.to.row, mv.to.col, mv.promoteP), mv.from.row, mv.from.col, P_EE)
        ELSE
          LET d2 == set(set(d1, mv.to.row, mv.to.col, fromP), mv.from.row, mv.from.col, P_EE)
              d3 == move_castle_flags(d2, fromP)
          IN  CASE mv.moveType = "long_castling" ->
                     castle_rook(d3, mv.from.row, mv.from.col - 4, mv.from.col - 1)
                [] mv.moveType = "short_castling" ->
                     castle_rook(d3, mv.from.row, mv.from.col + 3, mv.from.col + 1)
                [] mv.moveType = "en_passant" ->
                     en_passant_capture(d3, mv)
                [] mv.moveType = "pawn_2_steps" ->
                     move_pawn_2_steps(d3, mv, fromP)
                [] OTHER -> d3

\* a move that has no test of the kind invalid
move_unchecked(board, mv) ==
    [data |-> move_data(board.data, mv),
     history |-> Append(board.history, board.data)]

\* Board::move
move(board, mv) ==
    IF mv.moveType = "invalid"
    THEN board
    ELSE [data |-> move_data(board.data, mv),
          history |-> Append(board.history, board.data)]

\* an undo that puts back the 144 cells of the grid and leaves the flag and
\* en-passant cells as they are
undo_grid_only(board) ==
    IF board.history # <<>>
    THEN [data |-> [i \in 0..147 |-> IF i < width * width
                                     THEN board.history[Len(board.history)][i]
                                     ELSE board.data[i]],
          history |-> SubSeq(board.history, 1, Len(board.history) - 1)]
    ELSE board

\* an undo that restores the string and keeps the entry in the history
undo_keep_entry(board) ==
    IF board.history # <<>>
    THEN [board EXCEPT !.data = board.history[Len(board.history)]]
    ELSE board

\* Board::undo
undo(board) ==
    IF board.history # <<>>
    THEN [data |-> board.history[Len(board.history)],
          history |-> SubSeq(board.history, 1, Len(board.history) - 1)]
    ELSE board

(***************************************************************************)
(* MovesGen.  A std::vector<Move> is a sequence; a function that appends   *)
(* to the vector passed by reference returns the extended sequence.  The   *)
(* steps of a piece only append, so each is computed from the empty vector *)
(* and the results are concatenated in the order of the code.              *)
(***************************************************************************)
\* returns the bool result and the vector
try_add_possible_move(board, from, to, vec) ==
    LET fromP == getp(board, from)
        toP == getp(board, to)
    IN  IF toP = P_EO THEN [ok |-> FALSE, vec |-> vec]
        ELSE IF toP = P_EE
        THEN [ok |-> TRUE, vec |-> Append(vec, Move3(from, to, "normal"))]
        ELSE IF piece_side(fromP) # piece_side(toP)
        THEN [ok |-> FALSE, vec |-> Append(vec, Move3(from, to, "normal"))]
        ELSE [ok |-> FALSE, vec |-> vec]

\* one for-loop of gen_crossing / gen_diagonal: step (dr, dc) while
\* try_add_possible_move returns true
RECURSIVE ray(_, _, _, _, _, _, _)
ray(board, from, r, c, dr, dc, vec) ==
    LET t == try_add_possible_move(board, from, Pos(r, c), vec)
    IN  IF t.ok THEN ray(board, from, r + dr, c + dc, dr, dc, t.vec) ELSE t.vec

gen_crossing(board, from, vec) ==
    vec \o ray(board, from, from.row - 1, from.col, -1, 0, <<>>)
        \o ray(board, from, from.row + 1, from.col, 1, 0, <<>>)
        \o ray(board, from, from.row, from.col - 1, 0, -1, <<>>)
        \o ray(board, from, from.row, from.col + 1, 0, 1, <<>>)

gen_diagonal(board, from, vec) ==
    vec \o ray(board, from, from.row - 1, from.col - 1, -1, -1, <<>>)
        \o ray(board, from, from.row - 1, from.col + 1, -1, 1, <<>>)
        \o ray(board, from, from.row + 1, from.col - 1, 1, -1, <<>>)
        \o ray(board, from, from.row + 1, from.col + 1, 1, 1, <<>>)

\* a generator that offers the promotion to the queen only
pawn_add_and_check_promote_queen(s, from, to, canPromote, vec) ==
    IF canPromote
    THEN Append(vec, Move4(from, to, "pawn_move_and_promote", IF s = "upper" THEN P_UQ ELSE P_DQ))
    ELSE Append(vec, Move3(from, to, "normal"))

\* a generator in which a pawn that reaches the far rank stays a pawn
pawn_add_and_check_promote_never(s, from, to, canPromote, vec) ==
    Append(vec, Move3(from, to, "normal"))

pawn_add_and_check_promote(s, from, to, canPromote, vec) ==
    IF canPromote
    THEN vec \o << Move4(from, to, "pawn_move_and_promote", IF s = "upper" THEN P_UR ELSE P_DR),
                   Move4(from, to, "pawn_move_and_promote", IF s = "upper" THEN P_UN ELSE P_DN),
                   Move4(from, to, "pawn_move_and_promote", IF s = "upper" THEN P_UB ELSE P_DB),
                   Move4(from, to, "pawn_move_and_promote", IF s = "upper" THEN P_UQ ELSE P_DQ) >>
    ELSE Append(vec, Move3(from, to, "normal"))

\* the en-passant block shared by pawn_steps_upper (fwd = 1) and
\* pawn_steps_down (fwd = -1)
pawn_en_passant(board, from, fwd, vec) ==
    IF has_chance_to_do_en_passant(board)
    THEN LET ep == en_passant_pos(board)
         IN  IF from.row = ep.row /\ (from.col + 1 = ep.col \/ from.col - 1 = ep.col)
             THEN Append(vec, Move3(from, Pos(from.row + fwd, ep.col), "en_passant"))
             ELSE vec
    ELSE vec

\* the straight-ahead block
pawn_forward(board, s, from, fwd, beginRow, promoteRow, vec) ==
    IF get(board, from.row + fwd, from.col) = P_EE
    THEN LET v1 == IF from.row = beginRow /\ get(board, from.row + 2 * fwd, from.col) = P_EE
                   THEN Append(vec, Move3(from, Pos(from.row + 2 * fwd, from.col), "pawn_2_steps"))
                   ELSE vec
         IN  pawn_add_and_check_promote(s, from, Pos(from.row + fwd, from.col),
                                        from.row + fwd = promoteRow, v1)
    ELSE vec

\* a capture loop that does not test for Side::extra
pawn_capture_unguarded(board, s, from, fwd, col, promoteRow, vec) ==
    LET p == get(board, from.row + fwd, col)
        ps == piece_side(p)
    IN  IF ps # piece_side(getp(board, from))
        THEN pawn_add_and_check_promote(s, from, Pos(from.row + fwd, col),
                                        from.row + fwd = promoteRow, vec)
        ELSE vec

\* one iteration of the capture loop over { from.col + 1, from.col - 1 }
pawn_capture(board, s, from, fwd, col, promoteRow, vec) ==
    LET p == get(board, from.row + fwd, col)
        ps == piece_side(p)
    IN  IF ps # "extra" /\ ps # piece_side(getp(board, from))
        THEN pawn_add_and_check_promote(s, from, Pos(from.row + fwd, col),
                                        from.row + fwd = promoteRow, vec)
        ELSE vec

pawn_steps_upper(board, from, vec) ==
    vec \o pawn_en_passant(board, from, 1, <<>>)
        \o pawn_forward(board, "upper", from, 1, upper_pawn_begin_row, upper_pawn_promote_row, <<>>)
        \o pawn_capture(board, "upper", from, 1, from.col + 1, upper_pawn_promote_row, <<>>)
        \o pawn_capture(board, "upper", from, 1, from.col - 1, upper_pawn_promote_row, <<>>)

pawn_steps_down(board, from, vec) ==
    vec \o pawn_en_passant(board, from, -1, <<>>)
        \o pawn_forward(board, "down", from, -1, down_pawn_begin_row, down_pawn_promote_row, <<>>)
        \o pawn_capture(board, "down", from, -1, from.col + 1, down_pawn_promote_row, <<>>)
        \o pawn_capture(board, "down", from, -1, from.col - 1, down_pawn_promote_row, <<>>)

pawn_steps(board, from, vec) ==
    IF getp(board, from) = P_UP
    THEN pawn_steps_upper(board, from, vec)
    ELSE pawn_steps_down(board, from, vec)

\* a rook that moves along the diagonals
rook_steps_diagonal(board, from, vec) == gen_diagonal(board, from, vec)

rook_steps(board, from, vec) == gen_crossing(board, from, vec)

\* one try_add_possible_move(board, from, Pos{ from.row + dr, from.col + dc }, vec)
\* of knight_steps / king_steps: what the call appends to the vector
offset_step(board, from, dr, dc) ==
    try_add_possible_move(board, from, Pos(from.row + dr, from.col + dc), <<>>).vec

\* the eight offsets, each tried independently, in the order of the code
knight_steps(board, from, vec) ==
    vec \o offset_step(board, from, 2, -1) \o offset_step(board, from, 2, 1)
        \o offset_step(board, from, 1, -2) \o offset_step(board, from, 1, 2)
        \o offset_step(board, from, -1, -2) \o offset_step(board, from, -1, 2)
        \o offset_step(board, from, -2, -1) \o offset_step(board, from, -2, 1)

\* the eight neighbours of king_steps, in the order of the code
king_neighbours(board, from, vec) ==
    vec \o offset_step(board, from, -1, -1) \o offset_step(board, from, -1, 0)
        \o offset_step(board, from, -1, 1) \o offset_step(board, from, 0, -1)
        \o offset_step(board, from, 0, 1) \o offset_step(board, from, 1, -1)
        \o offset_step(board, from, 1, 0) \o offset_step(board, from, 1, 1)

bishop_steps(board, from, vec) == gen_diagonal(board, from, vec)

queen_steps(board, from, vec) == gen_diagonal(board, from, gen_crossing(board, from, vec))

\* the castling part of king_steps
king_castling(board, from, vec) ==
    LET s == piece_side(getp(board, from))
        short == IF s = "upper" THEN can_upper_short_castle(board) ELSE can_down_short_castle(board)
        long == IF s = "upper" THEN can_upper_long_castle(board) ELSE can_down_long_castle(board)
        v1 == IF short
              THEN Append(vec, Move3(from, Pos(from.row, from.col + 2), "short_castling"))
              ELSE vec
    IN  IF long
        THEN Append(v1, Move3(from, Pos(from.row, from.col - 2), "long_castling"))
        ELSE v1

king_steps(board, from, vec) ==
    king_castling(board, from, king_neighbours(board, from, vec))

\* the switch of gen_moves_for_one_side for the cell (r, c)
gen_cell(board, s, r, c, vec) ==
    LET p == get(board, r, c)
    IN  IF piece_side(p) = s
        THEN CASE piece_type(p) = "pawn" -> pawn_steps(board, Pos(r, c), vec)
               [] piece_type(p) = "rook" -> rook_steps(board, Pos(r, c), vec)
               [] piece_type(p) = "knight" -> knight_steps(board, Pos(r, c), vec)
               [] piece_type(p) = "bishop" -> bishop_steps(board, Pos(r, c), vec)
               [] piece_type(p) = "queen" -> queen_steps(board, Pos(r, c), vec)
               [] piece_type(p) = "king" -> king_steps(board, Pos(r, c), vec)
               [] OTHER -> vec
        ELSE vec

\* the inner loop over c for the columns lo..hi of the row r, in order; every
\* cell appends to the vector
RECURSIVE gen_row(_, _, _, _, _)
gen_row(board, s, r, lo, hi) ==
    IF lo = hi THEN gen_cell(board, s, r, lo, <<>>)
    ELSE gen_row(board, s, r, lo, (lo + hi) \div 2)
         \o gen_row(board, s, r, (lo + hi) \div 2 + 1, hi)

\* the outer loop over r for the rows lo..hi, in order
RECURSIVE gen_rows(_, _, _, _)
gen_rows(board, s, lo, hi) ==
    IF lo = hi THEN gen_row(board, s, lo, line_begin, line_end)
    ELSE gen_rows(board, s, lo, (lo + hi) \div 2)
         \o gen_rows(board, s, (lo + hi) \div 2 + 1, hi)

\* row-major over the playable range line_begin..line_end
gen_moves_for_one_side(board, s) == gen_rows(board, s, line_begin, line_end)

(***************************************************************************)
(* ScoreEvaluator.  The weight tables are loaded from files outside the    *)
(* repository; the model draws them from WeightSets.  Weights are whole    *)
(* numbers far below 2^24, so the float sums of evaluate are exact and are *)
(* modelled by integers.                                                   *)
(***************************************************************************)
\* material weight of a piece kind, per weight set w (positive for down)
KindValue(w, t) ==
    CASE t = "pawn" -> 10
      [] t = "rook" -> 50
      [] t = "knight" -> 30
      [] t = "bishop" -> IF w = 1 THEN 30 ELSE 32
      [] t = "queen" -> 90
      [] t = "king" -> 900
      [] OTHER -> 0

\* piece_value[p] after init_values
piece_value(w, p) ==
    IF piece_side(p) = "down" THEN KindValue(w, piece_type(p))
    ELSE IF piece_side(p) = "upper" THEN 0 - KindValue(w, piece_type(p))
    ELSE 0

\* piece_pos_value[p][r][c] after init_values: zero outside the playable range;
\* weight set 1 has no positional bonus, weight set 2 favours the centre
piece_pos_value(w, p, r, c) ==
    IF w = 1 \/ r < line_begin \/ r > line_end \/ c < line_begin \/ c > line_end THEN 0
    ELSE LET centre == (IF r <= 5 THEN r - 2 ELSE 9 - r) + (IF c <= 5 THEN c - 2 ELSE 9 - c)
         IN  IF piece_side(p) = "down" THEN centre
             ELSE IF piece_side(p) = "upper" THEN 0 - centre
             ELSE 0

\* the body of the two loops of evaluate for the cell (r, c)
cell_score(w, board, r, c) ==
    LET p == get(board, r, c)
    IN  IF p # P_EE THEN piece_value(w, p) + piece_pos_value(w, p, r, c) ELSE 0

\* the inner loop of evaluate for the columns lo..hi of the row r
RECURSIVE row_score(_, _, _, _, _)
row_score(w, board, r, lo, hi) ==
    IF lo = hi THEN cell_score(w, board, r, lo)
    ELSE row_score(w, board, r, lo, (lo + hi) \div 2)
         + row_score(w, board, r, (lo + hi) \div 2 + 1, hi)

\* the outer loop of evaluate for the rows lo..hi
RECURSIVE rows_score(_, _, _, _)
rows_score(w, board, lo, hi) ==
    IF lo = hi THEN row_score(w, board, lo, line_begin, line_end)
    ELSE rows_score(w, board, lo, (lo + hi) \div 2)
         + rows_score(w, board, (lo + hi) \div 2 + 1, hi)

\* ScoreEvaluator::evaluate: the bigger the score, the better for down
evaluate(w, board) == rows_score(w, board, line_begin, line_end)

(***************************************************************************)
(* BestMoveGen.  min_max takes the board by reference and mutates it with  *)
(* move/undo: the operator returns the value together with the board as    *)
(* the call leaves it, and the number of times the loop was left by the    *)
(* cut-off with moves still untried (cuts, which the code does not keep)   *)
(* and the lengths of the history at the calls of evaluate (plies, which   *)
(* the code does not keep either).                                         *)
(***************************************************************************)
LOWER_BOUND == -5000000
UPPER_BOUND == 5000000

max(a, b) == IF a < b THEN b ELSE a

min(a, b) == IF b < a THEN b ELSE a

\* a cut-off that also fires on a window of width one piece unit
cut_off_narrow(alpha, beta) == alpha + 10 >= beta

\* the test that ends the move loop
cut_off(alpha, beta) == alpha >= beta

RECURSIVE min_max(_, _, _, _, _, _)
RECURSIVE min_max_loop(_, _, _, _, _, _, _)

\* the locals of min_max before its for-loop; broke tells that the loop was
\* left by break
min_max_locals(board, alpha, beta, isMax) ==
    [board |-> board, alpha |-> alpha, beta |-> beta,
     bestVal |-> IF isMax THEN LOWER_BOUND ELSE UPPER_BOUND,
     broke |-> FALSE, cuts |-> 0, plies |-> {}]

\* the rest of the body of the for-loop of min_max once the recursive call
\* has returned r: undo, bestVal, alpha or beta, the cut-off test; more tells
\* that moves are left after this one
\* a loop body that leaves the loop by the cut-off before it undoes the move
min_max_update_break_first(st, r, isMax, more) ==
    LET bv == IF isMax THEN max(st.bestVal, r.val) ELSE min(st.bestVal, r.val)
        a2 == IF isMax THEN max(st.alpha, bv) ELSE st.alpha
        be2 == IF isMax THEN st.beta ELSE min(st.beta, bv)
    IN  [board |-> IF cut_off(a2, be2) THEN r.board ELSE undo(r.board),
         alpha |-> a2, beta |-> be2, bestVal |-> bv,
         broke |-> cut_off(a2, be2),
         cuts |-> st.cuts + r.cuts + (IF cut_off(a2, be2) /\ more THEN 1 ELSE 0),
         plies |-> st.plies \cup r.plies]

min_max_update(st, r, isMax, more) ==
    LET bv == IF isMax THEN max(st.bestVal, r.val) ELSE min(st.bestVal, r.val)
        a2 == IF isMax THEN max(st.alpha, bv) ELSE st.alpha
        be2 == IF isMax THEN st.beta ELSE min(st.beta, bv)
    IN  [board |-> undo(r.board), alpha |-> a2, beta |-> be2, bestVal |-> bv,
         broke |-> cut_off(a2, be2),
         cuts |-> st.cuts + r.cuts + (IF cut_off(a2, be2) /\ more THEN 1 ELSE 0),
         plies |-> st.plies \cup r.plies]

\* the body of the for-loop of min_max for the move moves[i]
min_max_body(w, st, moves, i, thinkDepth, isMax) ==
    min_max_update(st,
                   min_max(w, move(st.board, moves[i]), thinkDepth - 1,
                           st.alpha, st.beta, ~isMax),
                   isMax, i < Len(moves))

\* the iterations lo..hi of the for-loop of min_max, in order: the first
\* half, then, unless the loop was left, the second half
min_max_loop(w, st, moves, lo, hi, thinkDepth, isMax) ==
    IF lo > hi THEN st
    ELSE IF lo = hi THEN min_max_body(w, st, moves, lo, thinkDepth, isMax)
    ELSE LET mid == (lo + hi) \div 2
             left == min_max_loop(w, st, moves, lo, mid, thinkDepth, isMax)
         IN  IF left.broke
             THEN left
             ELSE min_max_loop(w, left, moves, mid + 1, hi, thinkDepth, isMax)

\* what min_max returns when its for-loop ends in the state st
min_max_return(st) ==
    [val |-> st.bestVal, board |-> st.board, cuts |-> st.cuts, plies |-> st.plies]

\* the for-loop of min_max over all of moves
min_max_for(w, st, moves, thinkDepth, isMax) ==
    min_max_return(min_max_loop(w, st, moves, 1, Len(moves), thinkDepth, isMax))

\* min_max from the generation of the moves on
min_max_search(w, board, thinkDepth, alpha, beta, isMax) ==
    min_max_for(w, min_max_locals(board, alpha, beta, isMax),
                gen_moves_for_one_side(board, IF isMax THEN "down" ELSE "upper"),
                thinkDepth, isMax)

\* a min_max whose leaf test is one ply late
min_max_leaf_late(w, board, thinkDepth, alpha, beta, isMax) ==
    IF thinkDepth < 0
    THEN [val |-> evaluate(w, board), board |-> board, cuts |-> 0,
          plies |-> {Len(board.history)}]
    ELSE min_max_search(w, board, thinkDepth, alpha, beta, isMax)

\* BestMoveGen::min_max (BestMoveGenParallel::min_max is the same text)
min_max(w, board, thinkDepth, alpha, beta, isMax) ==
    IF thinkDepth = 0
    THEN [val |-> evaluate(w, board), board |-> board, cuts |-> 0,
          plies |-> {Len(board.history)}]
    ELSE min_max_search(w, board, thinkDepth, alpha, beta, isMax)

\* a root loop that keeps the first of equal values
root_better_strict(s, val, best) == IF s = "upper" THEN val < best ELSE val > best

\* the comparison of the root loops: val <= minValue for upper, val >= maxValue for down
root_better(s, val, best) == IF s = "upper" THEN val <= best ELSE val >= best

\* the locals of a root loop before it starts: minValue / maxValue and the
\* default-constructed bestMove
root_locals(board, s) ==
    [board |-> board, value |-> IF s = "upper" THEN UPPER_BOUND ELSE LOWER_BOUND,
     move |-> InvalidMove, cuts |-> 0, plies |-> {}]

\* the rest of the body of the root loop once min_max has returned r
root_update(st, s, mv, r) ==
    IF root_better(s, r.val, st.value)
    THEN [board |-> undo(r.board), value |-> r.val, move |-> mv,
          cuts |-> st.cuts + r.cuts, plies |-> st.plies \cup r.plies]
    ELSE [st EXCEPT !.board = undo(r.board), !.cuts = @ + r.cuts,
                    !.plies = @ \cup r.plies]

\* the body of the root loop of gen_best_for for the move mv; alpha and beta
\* stay at the bounds
root_body(w, st, s, mv, thinkDepth) ==
    root_update(st, s, mv,
                min_max(w, move(st.board, mv), thinkDepth, LOWER_BOUND, UPPER_BOUND,
                        s = "upper"))

\* the iterations lo..hi of the root loop, in order (the first half is
\* computed before the second is entered); shared by the sequential
\* gen_best_for and by a worker of the parallel one, which runs it on its span
RECURSIVE root_loop(_, _, _, _, _, _, _)
root_loop(w, st, s, moves, lo, hi, thinkDepth) ==
    IF lo > hi THEN st
    ELSE IF lo = hi THEN root_body(w, st, s, moves[lo], thinkDepth)
    ELSE LET mid == (lo + hi) \div 2
             left == root_loop(w, st, s, moves, lo, mid, thinkDepth)
         IN  IF left.value = left.value
             THEN root_loop(w, left, s, moves, mid + 1, hi, thinkDepth)
             ELSE left

\* the root loop over all of moves
root_for(w, st, s, moves, thinkDepth) ==
    root_loop(w, st, s, moves, 1, Len(moves), thinkDepth)

\* a gen_best_for whose bestMove starts as a normal move of (0,0) onto itself
gen_best_for_unset(w, board, s, thinkDepth) ==
    root_for(w, [root_locals(board, s) EXCEPT !.move = Move3(Pos(0, 0), Pos(0, 0), "normal")],
             s, gen_moves_for_one_side(board, s), thinkDepth)

\* BestMoveGen::gen_best_for: the move returned (with the extremal value it
\* was chosen for) and the board as the call leaves it
gen_best_for(w, board, s, thinkDepth) ==
    root_for(w, root_locals(board, s), s, gen_moves_for_one_side(board, s), thinkDepth)

(***************************************************************************)
(* Plain minimax: the recursion of min_max without alpha, beta and the     *)
(* cut-off, with the same sentinels.  The reference the searches are       *)
(* compared with.                                                          *)
(***************************************************************************)
RECURSIVE minimax(_, _, _, _)
RECURSIVE minimax_loop(_, _, _, _, _, _, _, _)
minimax_loop(w, board, moves, lo, hi, depth, bestVal, isMax) ==
    IF lo > hi THEN bestVal
    ELSE IF lo = hi
    THEN IF isMax
         THEN max(bestVal, minimax(w, move(board, moves[lo]), depth - 1, FALSE))
         ELSE min(bestVal, minimax(w, move(board, moves[lo]), depth - 1, TRUE))
    ELSE LET mid == (lo + hi) \div 2
             left == minimax_loop(w, board, moves, lo, mid, depth, bestVal, isMax)
         IN  IF left = left
             THEN minimax_loop(w, board, moves, mid + 1, hi, depth, left, isMax)
             ELSE left

\* the loop of the plain minimax over all of moves
minimax_for(w, board, moves, depth, isMax) ==
    minimax_loop(w, board, moves, 1, Len(moves), depth,
                 IF isMax THEN LOWER_BOUND ELSE UPPER_BOUND, isMax)

minimax(w, board, depth, isMax) ==
    IF depth = 0 THEN evaluate(w, board)
    ELSE minimax_for(w, board,
                     gen_moves_for_one_side(board, IF isMax THEN "down" ELSE "upper"),
                     depth, isMax)

\* the minimax value at the root of the candidate m of side s, thinkDepth d
RootValue(w, board, s, m, d) == minimax(w, move(board, m), d, s = "upper")

(***************************************************************************)
(* BestMoveGenParallel                                                     *)
(***************************************************************************)
split_chunk_num == 32

\* stand-in for SIZE_MAX, the value of the size_t expression 0 - 1: a value
\* no counter of the model reaches; the model only compares counters with it
SIZE_MAX == 2147483647

\* chunkNum - 1 in size_t arithmetic
size_dec(n) == IF n = 0 THEN SIZE_MAX ELSE n - 1

\* the emplace_back loop of split_vector from counter on; a chunk is the
\* pair <<first, last>> of 1-based indices into vec.  A span that does not
\* lie inside vec ends the model of the loop with oob set.
RECURSIVE split_loop(_, _, _, _, _)
split_loop(n, chunkLength, last, counter, result) ==
    IF counter # last
    THEN IF counter * chunkLength + chunkLength > n
         THEN [oob |-> TRUE, chunks |-> result]
         ELSE split_loop(n, chunkLength, last, counter + 1,
                         Append(result, <<counter * chunkLength + 1,
                                          counter * chunkLength + chunkLength>>))
    ELSE IF counter * chunkLength > n
         THEN [oob |-> TRUE, chunks |-> result]
         ELSE [oob |-> FALSE, chunks |-> Append(result, <<counter * chunkLength + 1, n>>)]

\* a split_vector that keeps chunkNum when the vector is shorter than it
split_vector_fixed(n, chunkNum0) ==
    split_loop(n, IF n \div chunkNum0 = 0 THEN 1 ELSE n \div chunkNum0,
               size_dec(chunkNum0), 0, <<>>)

\* BestMoveGenParallel::split_vector on a vector of n elements
split_vector(n, chunkNum0) ==
    LET len0 == n \div chunkNum0
        chunkNum == IF len0 = 0 THEN n ELSE chunkNum0
        chunkLength == IF len0 = 0 THEN 1 ELSE len0
    IN  split_loop(n, chunkLength, size_dec(chunkNum), 0, <<>>)

\* the body of a worker lambda for the chunk <<lo, hi>>: a private copy of
\* the board, the root loop over the chunk, the two results
worker(w, board, s, moves, chunk, thinkDepth) ==
    LET tempBoard == board
    IN  root_loop(w, root_locals(tempBoard, s), s, moves, chunk[1], chunk[2], thinkDepth)

\* a task that writes the first element of bestMoves and bestValues
slot_first(i) == 1

\* the index of bestMoves and bestValues that task i writes
slot(i) == i

\* the objects of a parallel call: the caller's board, splitMoves[i],
\* bestMoves[i], bestValues[i], the tables of the evaluator, and tempBoard
\* of task i, which no other task can name.  What task i reads and what it
\* writes from its launch to its end:
task_reads(i) ==
    {<<"board", 0>>, <<"splitMoves", i>>, <<"piece_value", 0>>, <<"piece_pos_value", 0>>,
     <<"tempBoard", i>>}

task_writes(i) ==
    {<<"tempBoard", i>>, <<"bestMoves", slot(i)>>, <<"bestValues", slot(i)>>}

\* the pieces init_values has put into piece_value and piece_pos_value
TableKeys == UpperPieces \cup DownPieces

\* the keys evaluate would insert into the tables with operator[] on board
table_inserts(board) ==
    {p \in {get(board, r, c) : r \in line_begin..line_end, c \in line_begin..line_end} :
        p # P_EE /\ p \notin TableKeys}

\* a task.get() that does not wait for its task
task_get_nowait(finished, k) == TRUE

\* task.get() on task k returns once the task has run to its end
task_get(finished, k) == k \in finished

\* the reduction loop over bestValues from index i on; idx = 0 stands for the
\* uninitialised minIndex / maxIndex
RECURSIVE reduce_loop(_, _, _, _, _)
reduce_loop(s, bestValues, i, best, idx) ==
    IF i > Len(bestValues) THEN idx
    ELSE IF root_better(s, bestValues[i], best)
         THEN reduce_loop(s, bestValues, i + 1, bestValues[i], i)
         ELSE reduce_loop(s, bestValues, i + 1, best, idx)

\* a reduction that takes the last chunk whatever its value
reduce_last(s, bestValues) == Len(bestValues)

\* a reduction that keeps the first of the chunks with the extremal value
reduce_first(s, bestValues) ==
    IF bestValues = <<>> THEN 0
    ELSE CHOOSE i \in 1..Len(bestValues) :
            /\ \A j \in 1..Len(bestValues) : root_better(s, bestValues[i], bestValues[j])
            /\ \A j \in 1..(i - 1) : ~root_better(s, bestValues[j], bestValues[i])

reduce(s, bestValues) ==
    reduce_loop(s, bestValues, 1, IF s = "upper" THEN UPPER_BOUND ELSE LOWER_BOUND, 0)

(***************************************************************************)
(* Games played from the initial layout.  A line is a sequence of          *)
(* <<from.row, from.col, to.row, to.col>>; a step of a line is played only *)
(* if the generator offers it.                                             *)
(***************************************************************************)
\* an upper pawn double-steps beside a down pawn standing on its origin rank
LineEnPassant ==
    << <<8, 8, 6, 8>>, <<2, 8, 4, 7>>, <<8, 7, 6, 7>>, <<4, 7, 5, 9>>, <<6, 8, 5, 9>>,
       <<2, 9, 2, 8>>, <<6, 7, 5, 7>>, <<2, 8, 2, 9>>, <<5, 7, 4, 7>>, <<2, 9, 2, 8>>,
       <<4, 7, 3, 8>>, <<3, 7, 5, 7>>, <<5, 9, 4, 10>> >>

\* both sides clear both wings, down castles long, upper castles short
LineCastling ==
    << <<9, 8, 7, 7>>, <<2, 8, 4, 7>>, <<8, 8, 7, 8>>, <<3, 8, 4, 8>>, <<9, 7, 8, 8>>,
       <<2, 7, 3, 8>>, <<9, 3, 7, 4>>, <<2, 3, 4, 4>>, <<8, 5, 7, 5>>, <<3, 5, 4, 5>>,
       <<9, 4, 7, 6>>, <<2, 4, 4, 6>>, <<9, 5, 8, 5>>, <<2, 5, 3, 5>>, <<9, 6, 9, 4>>,
       <<2, 6, 2, 8>> >>

\* exchanges down to a position in which upper has no piece left
LineExchanges ==
    << <<8, 9, 6, 9>>, <<3, 8, 5, 8>>, <<6, 9, 5, 8>>, <<3, 6, 5, 6>>, <<9, 9, 3, 9>>,
       <<2, 5, 5, 8>>, <<3, 9, 2, 9>>, <<5, 8, 8, 5>>, <<9, 3, 8, 5>>, <<3, 5, 4, 5>>,
       <<2, 9, 2, 8>>, <<2, 4, 4, 6>>, <<2, 8, 2, 7>>, <<4, 6, 8, 2>>, <<2, 7, 2, 6>>,
       <<2, 3, 3, 5>>, <<9, 2, 8, 2>>, <<2, 2, 2, 6>>, <<8, 2, 3, 2>>, <<2, 6, 4, 6>>,
       <<3, 2, 3, 3>>, <<3, 4, 5, 4>>, <<3, 3, 3, 5>>, <<5, 6, 6, 6>>, <<8, 5, 6, 6>>,
       <<4, 6, 6, 6>>, <<3, 5, 3, 7>>, <<6, 6, 8, 6>>, <<9, 8, 8, 6>>, <<5, 4, 6, 4>>,
       <<9, 5, 4, 5>>, <<6, 4, 7, 4>>, <<8, 3, 7, 4>> >>

\* exchanges down to a position in which down has no piece left
LineExchanges2 ==
    << <<8, 8, 6, 8>>, <<3, 6, 4, 6>>, <<6, 8, 5, 8>>, <<2, 5, 5, 8>>, <<9, 3, 7, 2>>,
       <<2, 7, 7, 2>>, <<8, 3, 7, 2>>, <<5, 8, 8, 5>>, <<8, 7, 6, 7>>, <<8, 5, 9, 4>>,
       <<9, 5, 6, 5>>, <<9, 4, 9, 6>>, <<6, 5, 3, 8>>, <<9, 6, 9, 7>>, <<3, 8, 2, 9>>,
       <<9, 7, 9, 2>>, <<2, 9, 3, 9>>, <<9, 2, 9, 8>>, <<3, 9, 2, 8>>, <<9, 8, 9, 9>>,
       <<2, 8, 2, 6>>, <<9, 9, 8, 9>>, <<2, 6, 4, 6>>, <<3, 5, 4, 6>>, <<7, 2, 6, 2>>,
       <<8, 9, 6, 7>>, <<8, 6, 7, 6>>, <<6, 7, 7, 6>>, <<8, 4, 6, 4>>, <<7, 6, 8, 5>>,
       <<6, 2, 5, 2>>, <<8, 5, 5, 2>>, <<6, 4, 5, 4>>, <<5, 2, 8, 2>>, <<5, 4, 4, 4>>,
       <<3, 3, 4, 4>> >>

\* a down bishop captures the upper rook on its origin square, then the upper
\* king moves
LineRookCaptured ==
    << <<8, 3, 7, 3>>, <<3, 6, 4, 6>>, <<9, 4, 8, 3>>, <<3, 8, 4, 8>>, <<8, 3, 2, 9>>,
       <<2, 6, 3, 6>> >>

\* a down pawn reaches the seventh rank beside the upper rook with the square
\* ahead of it empty, and promotes straight ahead
LinePromotion ==
    << <<8, 2, 6, 2>>, <<3, 3, 5, 3>>, <<6, 2, 5, 3>>, <<3, 2, 4, 2>>, <<5, 3, 4, 2>>,
       <<2, 3, 4, 4>>, <<4, 2, 3, 2>>, <<2, 2, 2, 3>>, <<3, 2, 2, 2>> >>

\* for part_000: the down king goes out and back, an upper pawn takes on b2
\* and stands beside the pawn on a2, which then makes its double step
LineOriginRank ==
    << <<8, 5, 7, 5>>, <<3, 2, 5, 2>>, <<9, 6, 8, 5>>, <<5, 2, 6, 2>>, <<8, 5, 9, 6>>,
       <<6, 2, 7, 2>>, <<7, 5, 6, 5>>, <<7, 2, 8, 3>>, <<8, 2, 6, 2>>, <<3, 9, 4, 9>> >>

Lines ==
    <<LineEnPassant, LineCastling, LineExchanges, LineExchanges2, LineRookCaptured,
      LinePromotion, LineOriginRank>>

\* a std::find that answers the first element when nothing matches
find_move_first(moves, t) ==
    LET hits == {i \in 1..Len(moves) :
                    moves[i].from = Pos(t[1], t[2]) /\ moves[i].to = Pos(t[3], t[4])}
    IN  IF hits = {} THEN min(1, Len(moves)) ELSE CHOOSE i \in hits : \A j \in hits : i <= j

\* std::find over the generated moves with Move::operator== (from and to
\* only): the index of the first match, 0 for cend()
find_move(moves, t) ==
    LET hits == {i \in 1..Len(moves) :
                    moves[i].from = Pos(t[1], t[2]) /\ moves[i].to = Pos(t[3], t[4])}
    IN  IF hits = {} THEN 0 ELSE CHOOSE i \in hits : \A j \in hits : i <= j

\* number of pieces on the playable range
NumPieces(b) ==
    Cardinality({i \in 0..143 : piece_side(b.data[i]) # "extra"})

(***************************************************************************)
(* Game.  A line of input is the sequence of its character codes.          *)
(***************************************************************************)
CH_a == 97
CH_h == 104
CH_1 == 49
CH_8 == 56

userSide == "down"
elysiaSide == "upper"

\* Game::is_input_a_move
is_input_a_move(input) ==
    /\ Len(input) >= 4
    /\ input[1] >= CH_a /\ input[1] <= CH_h
    /\ input[2] >= CH_1 /\ input[2] <= CH_8
    /\ input[3] >= CH_a /\ input[3] <= CH_h
    /\ input[4] >= CH_1 /\ input[4] <= CH_8

\* the coordinates input_to_move reads from the text:
\* <<from.row, from.col, to.row, to.col>>
input_to_pos(input) ==
    <<line_begin + CH_8 - input[2], line_begin + input[1] - CH_a,
      line_begin + CH_8 - input[4], line_begin + input[3] - CH_a>>

\* the move input_to_move builds once std::find has answered k (0 for
\* cend()); promo is what ask_for_promotion returns when it is asked
input_found(board, t, moves, k, promo) ==
    IF k = 0
    THEN Move3(Pos(t[1], t[2]), Pos(t[3], t[4]), "invalid")
    ELSE Move4(Pos(t[1], t[2]), Pos(t[3], t[4]), moves[k].moveType,
               IF moves[k].moveType = "pawn_move_and_promote"
                  /\ piece_type(get(board, t[3], t[4])) # "king"
               THEN promo ELSE P_EO)

\* input_to_move over the candidates moves
input_among(board, t, moves, promo) ==
    input_found(board, t, moves, find_move(moves, t), promo)

\* Game::input_to_move
input_to_move(board, input, promo) ==
    input_among(board, input_to_pos(input),
                gen_moves_for_one_side(board, userSide), promo)

\* the pieces ask_for_promotion offers
Promotions == IF userSide = "upper" THEN {P_UR, P_UN, P_UB, P_UQ}
              ELSE {P_DR, P_DN, P_DB, P_DQ}

\* Game::is_win
is_win(board, s) ==
    LET alive(k) == \E r \in line_begin..line_end, c \in line_begin..line_end :
                        get(board, r, c) = k
    IN  IF alive(P_UK) /\ alive(P_DK) THEN FALSE
        ELSE IF s = "upper" THEN alive(P_UK) ELSE alive(P_DK)

\* the results of the tasks of BestMoveGenParallel::gen_best_for, one per
\* chunk, each run to completion
par_results(w, board, s, moves, chunks, thinkDepth) ==
    [i \in 1..Len(chunks) |-> worker(w, board, s, moves, chunks[i], thinkDepth)]

\* the reduction over the results and the return
par_return(s, results) ==
    results[reduce(s, [i \in 1..Len(results) |-> results[i].value])].move

\* BestMoveGenParallel::gen_best_for from split_vector on; a run-away
\* split_vector never returns (returned is FALSE)
par_split(w, board, s, moves, sv, thinkDepth) ==
    IF sv.oob
    THEN [returned |-> FALSE, move |-> InvalidMove]
    ELSE [returned |-> TRUE,
          move |-> par_return(s, par_results(w, board, s, moves, sv.chunks, thinkDepth))]

par_moves(w, board, s, moves, thinkDepth) ==
    par_split(w, board, s, moves, split_vector(Len(moves), split_chunk_num), thinkDepth)

\* BestMoveGenParallel::gen_best_for as one call
par_gen_best_for(w, board, s, thinkDepth) ==
    par_moves(w, board, s, gen_moves_for_one_side(board, s), thinkDepth)

\* what handle_move leaves behind: the board, gameOver, the message printed,
\* the move built from the input and Elysia's move (the sentinel when she
\* made none)
Handled(board, over, outcome, mv, reply) ==
    [board |-> board, gameOver |-> over, outcome |-> outcome, mv |-> mv, reply |-> reply]

\* handle_move from board.move(elysiaMove) on; b2 is the board after it
handle_replied(b2, mv, elysiaMove) ==
    Handled(b2, is_win(b2, elysiaSide),
            IF is_win(b2, elysiaSide) THEN "Elysia wins" ELSE "moved", mv, elysiaMove)

\* handle_move once Elysia's search has answered r
handle_reply(b1, mv, r) ==
    IF ~r.returned THEN Handled(b1, FALSE, "no return", mv, InvalidMove)
    ELSE handle_replied(move(b1, r.move), mv, r.move)

\* handle_move from board.move(mv) on; b1 is the board after the user's move
handle_played(w, b1, mv, depth) ==
    IF is_win(b1, userSide) THEN Handled(b1, TRUE, "You win", mv, InvalidMove)
    ELSE handle_reply(b1, mv, par_gen_best_for(w, b1, elysiaSide, depth))

\* handle_move from the move mv that input_to_move has built
handle_parsed(w, board, mv, depth) ==
    IF mv.moveType = "invalid"
    THEN Handled(board, FALSE, "invalid move", mv, InvalidMove)
    ELSE IF piece_side(getp(board, mv.from)) # userSide
    THEN Handled(board, FALSE, "not your piece", mv, InvalidMove)
    ELSE handle_played(w, move(board, mv), mv, depth)

\* Game::handle_move
handle_move(w, board, input, promo, depth) ==
    IF ~is_input_a_move(input)
    THEN Handled(board, FALSE, "unknown command", InvalidMove, InvalidMove)
    ELSE handle_parsed(w, board, input_to_move(board, input, promo), depth)

\* a desc_move that counts the ranks from the top of the grid
desc_move_top_down(mv) ==
    << mv.from.col - line_begin + CH_a,
       (mv.from.row - line_begin) + CH_1,
       mv.to.col - line_begin + CH_a,
       (mv.to.row - line_begin) + CH_1 >>

\* Game::desc_move: the four characters of the text of mv
desc_move(mv) ==
    << mv.from.col - line_begin + CH_a,
       8 - (mv.from.row - line_begin) + CH_0,
       mv.to.col - line_begin + CH_a,
       8 - (mv.to.row - line_begin) + CH_0 >>

\* the answers ask_for_promotion can give to handle_move(input): it is asked
\* when the move found promotes a pawn on a square no king stands on
PromotionAnswers(board, input) ==
    IF is_input_a_move(input) /\ input_to_move(board, input, P_EE).promoteP = P_EE
    THEN Promotions ELSE {P_EO}

(***************************************************************************)
(* The program of src/unnamed/part_000: ChessBoard keeps the grid as a     *)
(* 12 x 12 array (modelled row-major, as the array lies in memory: cell    *)
(* (r, c) at r * EDGE_LEN + c, so get and set above apply to it), the two  *)
(* castle flags and the en-passant position as members, and a history of   *)
(* HistoryNodes (the move and the two pieces it met) instead of snapshots. *)
(* Its Piece constants are named by the same characters, and get_side and  *)
(* get_type (84-131) are the lookups piece_side and piece_type.  A Move has *)
(* no promotion piece.  The playable range is LINE_BEGIN <= i < LINE_END,  *)
(* which is line_begin..line_end.                                          *)
(***************************************************************************)
MoveOf(from, to, moveType) == [from |-> from, to |-> to, moveType |-> moveType]

\* ChessBoard::ChessBoard: P_EO everywhere, then the layout of
\* res/default_board.txt on the playable range
ChessBoard ==
    [data |-> [i \in 0..143 |-> InitialLayout[i + 1]],
     history |-> <<>>,
     canUpperCastle |-> TRUE,
     canDownCastle |-> TRUE,
     enPassantPos |-> Pos(0, 0)]

\* ChessBoard::move(Move const&)
ChessBoard_move(cb, mv) ==
    LET fromP == getp(cb, mv.from)
        r == mv.from.row
        c == mv.from.col
        d1 == set(set(cb.data, mv.to.row, mv.to.col, fromP), r, c, P_EE)
        reversePawn == IF piece_side(fromP) = "upper" THEN P_DP ELSE P_UP
    IN  [data |->
            IF mv.moveType = "LONG_CASTLE"
            THEN set(set(d1, r, c - 1, d1[r * width + c - 4]), r, c - 4, P_EE)
            ELSE IF mv.moveType = "SHORT_CASTLE"
            THEN set(set(d1, r, c + 1, d1[r * width + c + 3]), r, c + 3, P_EE)
            ELSE IF mv.moveType = "EN_PASSANT"
            THEN set(d1, r, mv.to.col, P_EE)
            ELSE d1,
         history |-> Append(cb.history,
                            [from |-> mv.from, to |-> mv.to, moveType |-> mv.moveType,
                             fromP |-> fromP, toP |-> getp(cb, mv.to)]),
         canUpperCastle |-> IF fromP = P_UK THEN FALSE ELSE cb.canUpperCastle,
         canDownCastle |-> IF fromP = P_DK THEN FALSE ELSE cb.canDownCastle,
         enPassantPos |->
            IF mv.moveType = "PAWN_2_STEPS"
            THEN IF d1[r * width + c - 1] = reversePawn THEN Pos(r, c - 1)
                 ELSE IF d1[r * width + c + 1] = reversePawn THEN Pos(r, c + 1)
                 ELSE Pos(0, 0)
            ELSE Pos(0, 0)]

\* ChessBoard::move(Move const&, Piece promoteP)
ChessBoard_move_promote(cb, mv, promoteP) ==
    [cb EXCEPT !.history = Append(@, [from |-> mv.from, to |-> mv.to,
                                      moveType |-> mv.moveType,
                                      fromP |-> getp(cb, mv.from), toP |-> getp(cb, mv.to)]),
               !.data = set(set(@, mv.to.row, mv.to.col, promoteP),
                            mv.from.row, mv.from.col, P_EE)]

\* ChessBoard::undo.  hist is a reference to history.back() that is read
\* after pop_back(); the node is read here as pop_back() has left it in the
\* block of the deque (UndoCall has the other outcome)
ChessBoard_undo(cb) ==
    IF cb.history = <<>> THEN cb
    ELSE LET hist == cb.history[Len(cb.history)]
             r == hist.from.row
             c == hist.from.col
             d1 == set(set(cb.data, r, c, hist.fromP), hist.to.row, hist.to.col, hist.toP)
             rest == SubSeq(cb.history, 1, Len(cb.history) - 1)
             up == piece_side(hist.fromP) = "upper"
         IN  IF hist.moveType = "LONG_CASTLE"
             THEN [data |-> set(set(d1, r, c - 4, d1[r * width + c - 1]), r, c - 1, P_EE),
                   history |-> rest,
                   canUpperCastle |-> IF up THEN TRUE ELSE cb.canUpperCastle,
                   canDownCastle |-> IF up THEN cb.canDownCastle ELSE TRUE,
                   enPassantPos |-> cb.enPassantPos]
             ELSE IF hist.moveType = "SHORT_CASTLE"
             THEN [data |-> set(set(d1, r, c + 3, d1[r * width + c + 1]), r, c + 1, P_EE),
                   history |-> rest,
                   canUpperCastle |-> IF up THEN TRUE ELSE cb.canUpperCastle,
                   canDownCastle |-> IF up THEN cb.canDownCastle ELSE TRUE,
                   enPassantPos |-> cb.enPassantPos]
             ELSE IF hist.moveType = "EN_PASSANT"
             THEN [data |-> set(d1, r, hist.to.col, IF up THEN P_DP ELSE P_UP),
                   history |-> rest,
                   canUpperCastle |-> cb.canUpperCastle,
                   canDownCastle |-> cb.canDownCastle,
                   enPassantPos |-> Pos(r, hist.to.col)]
             ELSE [cb EXCEPT !.data = d1, !.history = rest]

\* try_add_possible_move of part_000: the bool result and the vector
try_add_possible_move_cb(cb, from, to, vec) ==
    LET toP == getp(cb, to)
    IN  IF toP = P_EO THEN [ok |-> FALSE, vec |-> vec]
        ELSE IF toP = P_EE
        THEN [ok |-> TRUE, vec |-> Append(vec, MoveOf(from, to, "NORMAL"))]
        ELSE IF piece_side(getp(cb, from)) # piece_side(toP)
        THEN [ok |-> FALSE, vec |-> Append(vec, MoveOf(from, to, "NORMAL"))]
        ELSE [ok |-> FALSE, vec |-> vec]

\* one for-loop of gen_crossing / gen_diagonal of part_000
RECURSIVE ray_cb(_, _, _, _, _, _, _)
ray_cb(cb, from, r, c, dr, dc, vec) ==
    LET t == try_add_possible_move_cb(cb, from, Pos(r, c), vec)
    IN  IF t.ok THEN ray_cb(cb, from, r + dr, c + dc, dr, dc, t.vec) ELSE t.vec

gen_crossing_cb(cb, from) ==
    ray_cb(cb, from, from.row - 1, from.col, -1, 0, <<>>)
        \o ray_cb(cb, from, from.row + 1, from.col, 1, 0, <<>>)
        \o ray_cb(cb, from, from.row, from.col - 1, 0, -1, <<>>)
        \o ray_cb(cb, from, from.row, from.col + 1, 0, 1, <<>>)

gen_diagonal_cb(cb, from) ==
    ray_cb(cb, from, from.row - 1, from.col - 1, -1, -1, <<>>)
        \o ray_cb(cb, from, from.row - 1, from.col + 1, -1, 1, <<>>)
        \o ray_cb(cb, from, from.row + 1, from.col - 1, 1, -1, <<>>)
        \o ray_cb(cb, from, from.row + 1, from.col + 1, 1, 1, <<>>)

\* one call try_add_possible_move(cb, from, Pos{ from.row + dr, from.col + dc }, vec)
\* whose result is dropped
step_cb(cb, from, dr, dc) ==
    try_add_possible_move_cb(cb, from, Pos(from.row + dr, from.col + dc), <<>>).vec

\* gen_moves_pawn: fwd is +1 for P_UP and -1 for the else branch
gen_moves_pawn(cb, from) ==
    LET fromP == getp(cb, from)
        up == fromP = P_UP
        fwd == IF up THEN 1 ELSE -1
        beginRow == IF up THEN upper_pawn_begin_row ELSE down_pawn_begin_row
        promoteRow == IF up THEN upper_pawn_promote_row ELSE down_pawn_promote_row
        kind == IF from.row + fwd = promoteRow THEN "GO_AND_PROMOTE" ELSE "NORMAL"
        ep == cb.enPassantPos
        capture(col) ==
            IF piece_side(get(cb, from.row + fwd, col)) \notin {"extra", piece_side(fromP)}
            THEN << MoveOf(from, Pos(from.row + fwd, col), kind) >>
            ELSE <<>>
    IN  (IF from.row = ep.row /\ (from.col + 1 = ep.col \/ from.col - 1 = ep.col)
         THEN << MoveOf(from, Pos(from.row + fwd, ep.col), "EN_PASSANT") >>
         ELSE <<>>)
        \o (IF get(cb, from.row + fwd, from.col) = P_EE
            THEN (IF from.row = beginRow /\ get(cb, from.row + 2 * fwd, from.col) = P_EE
                  THEN << MoveOf(from, Pos(from.row + 2 * fwd, from.col), "PAWN_2_STEPS") >>
                  ELSE <<>>)
                 \o << MoveOf(from, Pos(from.row + fwd, from.col), kind) >>
            ELSE <<>>)
        \o capture(from.col + 1) \o capture(from.col - 1)

gen_moves_knight(cb, from) ==
    step_cb(cb, from, 2, -1) \o step_cb(cb, from, 2, 1)
        \o step_cb(cb, from, 1, -2) \o step_cb(cb, from, 1, 2)
        \o step_cb(cb, from, -1, -2) \o step_cb(cb, from, -1, 2)
        \o step_cb(cb, from, -2, -1) \o step_cb(cb, from, -2, 1)

\* gen_moves_king: the eight calls of the code, then the castles
gen_moves_king(cb, from) ==
    LET r == from.row
        c == from.col
        up == piece_side(getp(cb, from)) = "upper"
        rook == IF up THEN P_UR ELSE P_DR
    IN  step_cb(cb, from, 1, -1) \o step_cb(cb, from, 1, 1)
        \o step_cb(cb, from, 1, -1) \o step_cb(cb, from, 1, 1)
        \o step_cb(cb, from, -1, -1) \o step_cb(cb, from, -1, 1)
        \o step_cb(cb, from, -1, -1) \o step_cb(cb, from, -1, 1)
        \o (IF (IF up THEN cb.canUpperCastle ELSE cb.canDownCastle)
            THEN (IF get(cb, r, c + 1) = P_EE /\ get(cb, r, c + 2) = P_EE
                     /\ get(cb, r, c + 3) = rook
                  THEN << MoveOf(from, Pos(r, c + 2), "SHORT_CASTLE") >> ELSE <<>>)
                 \o (IF get(cb, r, c - 1) = P_EE /\ get(cb, r, c - 2) = P_EE
                        /\ get(cb, r, c - 3) = P_EE /\ get(cb, r, c - 4) = rook
                     THEN << MoveOf(from, Pos(r, c - 2), "LONG_CASTLE") >> ELSE <<>>)
            ELSE <<>>)

\* the body of the two loops of gen_one_side_moves for the cell (r, c);
\* gen_moves_rook, gen_moves_bishop and gen_moves_queen are the calls of
\* gen_crossing and gen_diagonal
gen_cell_cb(cb, s, r, c) ==
    LET p == get(cb, r, c)
        t == piece_type(p)
    IN  IF piece_side(p) # s THEN <<>>
        ELSE IF t = "pawn" THEN gen_moves_pawn(cb, Pos(r, c))
        ELSE IF t = "rook" THEN gen_crossing_cb(cb, Pos(r, c))
        ELSE IF t = "knight" THEN gen_moves_knight(cb, Pos(r, c))
        ELSE IF t = "bishop" THEN gen_diagonal_cb(cb, Pos(r, c))
        ELSE IF t = "queen" THEN gen_crossing_cb(cb, Pos(r, c)) \o gen_diagonal_cb(cb, Pos(r, c))
        ELSE IF t = "king" THEN gen_moves_king(cb, Pos(r, c))
        ELSE <<>>

\* the loops of gen_one_side_moves over the cells lo..hi of the playable
\* range counted row-major (cell k is row line_begin + k \div 8, column
\* line_begin + k % 8)
RECURSIVE gen_cells_cb(_, _, _, _)
gen_cells_cb(cb, s, lo, hi) ==
    IF lo = hi THEN gen_cell_cb(cb, s, line_begin + (lo \div 8), line_begin + (lo % 8))
    ELSE gen_cells_cb(cb, s, lo, (lo + hi) \div 2)
         \o gen_cells_cb(cb, s, (lo + hi) \div 2 + 1, hi)

gen_one_side_moves(cb, s) == gen_cells_cb(cb, s, 0, 63)

(***************************************************************************)
(* The search of part_000.  The weight tables are loaded from the files of *)
(* res/; the model draws them from WeightSets as above.  The floats of     *)
(* this search are counted in halves of the weight unit: the score s is    *)
(* the number 2 * s, so that std::numeric_limits<float>::min(), the        *)
(* smallest positive normal float (about 1.2e-38), which lies strictly     *)
(* between 0 and every positive score, is the number 1.                    *)
(***************************************************************************)
FLT_MIN == 1
FLT_MAX == 2000000000

\* calc_board_score: the loops are those of evaluate
calc_board_score(w, cb) == 2 * rows_score(w, cb, line_begin, line_end)

RECURSIVE min_max_cb(_, _, _, _, _, _)
RECURSIVE min_max_cb_loop(_, _, _, _, _, _, _)

\* the rest of the body of a for-loop of min_max once the recursive call
\* has returned r: undo, bestValue, alpha or beta, the test of the break
min_max_cb_update(st, r, side) ==
    LET bv == IF side = "down" THEN max(st.bestValue, r.value) ELSE min(st.bestValue, r.value)
        a2 == IF side = "down" THEN max(st.alpha, bv) ELSE st.alpha
        b2 == IF side = "down" THEN st.beta ELSE min(st.beta, bv)
    IN  [cb |-> ChessBoard_undo(r.cb), alpha |-> a2, beta |-> b2, bestValue |-> bv,
         broke |-> a2 >= b2]

\* the iterations lo..hi of a for-loop of min_max, in order, up to the break
min_max_cb_loop(w, st, moves, lo, hi, searchDepth, side) ==
    IF lo > hi THEN st
    ELSE IF lo = hi
    THEN min_max_cb_update(st,
                           min_max_cb(w, ChessBoard_move(st.cb, moves[lo]), searchDepth - 1,
                                      st.alpha, st.beta, IF side = "down" THEN "upper" ELSE "down"),
                           side)
    ELSE LET mid == (lo + hi) \div 2
             left == min_max_cb_loop(w, st, moves, lo, mid, searchDepth, side)
         IN  IF left.broke
             THEN left
             ELSE min_max_cb_loop(w, left, moves, mid + 1, hi, searchDepth, side)

\* min_max from possibleMoves on: the value returned and the board as the
\* call leaves it
min_max_cb_for(w, cb, moves, searchDepth, alpha, beta, side) ==
    LET st == min_max_cb_loop(w, [cb |-> cb, alpha |-> alpha, beta |-> beta,
                                  bestValue |-> IF side = "down" THEN FLT_MIN ELSE FLT_MAX,
                                  broke |-> FALSE],
                              moves, 1, Len(moves), searchDepth, side)
    IN  [value |-> st.bestValue, cb |-> st.cb]

\* min_max of part_000
min_max_cb(w, cb, searchDepth, alpha, beta, side) ==
    IF searchDepth = 0
    THEN [value |-> calc_board_score(w, cb), cb |-> cb]
    ELSE min_max_cb_for(w, cb, gen_one_side_moves(cb, side), searchDepth, alpha, beta, side)

\* the rest of the body of a for-loop of gen_best_move for the move mv once
\* min_max has returned r; values keeps what min_max was called on and what
\* it returned (the code does not keep them)
gen_best_move_update(st, side, mv, called, r) ==
    LET better == IF side = "upper" THEN r.value <= st.value ELSE r.value >= st.value
    IN  [cb |-> ChessBoard_undo(r.cb),
         value |-> IF better THEN r.value ELSE st.value,
         bestMove |-> IF better THEN mv ELSE st.bestMove,
         calls |-> Append(st.calls, [cb |-> called, value |-> r.value])]

\* the iterations lo..hi of a for-loop of gen_best_move, in order
RECURSIVE gen_best_move_loop(_, _, _, _, _, _, _)
gen_best_move_loop(w, st, side, moves, lo, hi, searchDepth) ==
    IF lo > hi THEN st
    ELSE IF lo = hi
    THEN gen_best_move_update(st, side, moves[lo], ChessBoard_move(st.cb, moves[lo]),
             min_max_cb(w, ChessBoard_move(st.cb, moves[lo]), searchDepth, FLT_MIN, FLT_MAX,
                        IF side = "upper" THEN "down" ELSE "upper"))
    ELSE LET mid == (lo + hi) \div 2
             left == gen_best_move_loop(w, st, side, moves, lo, mid, searchDepth)
         IN  IF left.value = left.value
             THEN gen_best_move_loop(w, left, side, moves, mid + 1, hi, searchDepth)
             ELSE left

\* gen_best_move from possibleMoves on
gen_best_move_for(w, cb, side, moves, searchDepth) ==
    gen_best_move_loop(w, [cb |-> cb,
                           value |-> IF side = "upper" THEN FLT_MAX ELSE FLT_MIN,
                           bestMove |-> MoveOf(Pos(0, 0), Pos(0, 0), "INVALID"),
                           calls |-> <<>>],
                       side, moves, 1, Len(moves), searchDepth)

\* gen_best_move: the move returned, with the board as the call leaves it
gen_best_move(w, cb, side, searchDepth) ==
    gen_best_move_for(w, cb, side, gen_one_side_moves(cb, side), searchDepth)

(***************************************************************************)
(* The minimax value of a position of part_000: the greatest (down to      *)
(* move) or the least (upper to move) of the values of the positions the   *)
(* moves lead to, each on the position itself.  The reference min_max of   *)
(* part_000 is compared with.                                              *)
(***************************************************************************)
RECURSIVE minimax_cb(_, _, _, _)
RECURSIVE minimax_cb_loop(_, _, _, _, _, _, _)
minimax_cb_loop(w, cb, moves, lo, hi, depth, side) ==
    IF lo = hi
    THEN minimax_cb(w, ChessBoard_move(cb, moves[lo]), depth - 1,
                    IF side = "down" THEN "upper" ELSE "down")
    ELSE IF side = "down"
    THEN max(minimax_cb_loop(w, cb, moves, lo, (lo + hi) \div 2, depth, side),
             minimax_cb_loop(w, cb, moves, (lo + hi) \div 2 + 1, hi, depth, side))
    ELSE min(minimax_cb_loop(w, cb, moves, lo, (lo + hi) \div 2, depth, side),
             minimax_cb_loop(w, cb, moves, (lo + hi) \div 2 + 1, hi, depth, side))

minimax_cb_for(w, cb, moves, depth, side) ==
    IF moves = <<>> THEN (IF side = "down" THEN FLT_MIN ELSE FLT_MAX)
    ELSE minimax_cb_loop(w, cb, moves, 1, Len(moves), depth, side)

minimax_cb(w, cb, depth, side) ==
    IF depth = 0 THEN calc_board_score(w, cb)
    ELSE minimax_cb_for(w, cb, gen_one_side_moves(cb, side), depth, side)

(***************************************************************************)
(* State                                                                   *)
(***************************************************************************)
VARIABLES
    board,   \* Game::board
    line,    \* the game being played (index into Lines)
    free,    \* number of moves on top of the line that are not of the line
    w,       \* the weight set loaded by init_values
    played,  \* the moves that made board.history, oldest first
    last,    \* the last operation on the board: "reset", "move" or "undo"
    seq,     \* the last call of the sequential search and what it returned
    par,     \* the running call of BestMoveGenParallel::gen_best_for
    gameOver \* Game::gameOver

vars == <<board, line, free, w, played, last, seq, par, gameOver>>

\* bounds of the model
MaxFree == 1
MaxDepth == 3
MaxPieces == 11
MaxNodes == 300
MaxInterleave == 3
MaxGame == 2
MaxGameDepth == 0
MaxVec == 130
MaxLeaves == 700

Sides == {"upper", "down"}
WeightSets == {1, 2}

\* Game alternates the user (down, who moves first) and Elysia (upper)
SideToMove(b) == IF Len(b.history) % 2 = 0 THEN "down" ELSE "upper"

Other(s) == IF s = "upper" THEN "down" ELSE "upper"

NoCall == [op |-> "none"]
ParIdle == [pc |-> "idle"]

\* the size of the tree of `levels` plies below the position b, side s to
\* move first, estimated with the move counts of b itself
RECURSIVE EstNodes(_, _, _)
EstNodes(n1, n2, levels) ==
    IF levels = 0 THEN 1 ELSE max(1, n1) * EstNodes(n2, n1, levels - 1)

\* a search is run on the positions of the line with at most MaxPieces
\* pieces, once per position
SearchIdle ==
    /\ free = 0
    /\ seq.op = "none"
    /\ par.pc = "idle"
    /\ NumPieces(board) <= MaxPieces

\* a search of `levels` plies is run when its tree has at most MaxNodes
\* leaves; moves are the moves of the side to move first, others those of
\* the other side
SearchOK(moves, others, levels) ==
    EstNodes(Len(moves), Len(others), levels) <= MaxNodes

InitBoard ==
    /\ board = reset
    /\ line \in {1, 2, 5, 6}
    /\ free = 0
    /\ w = 1
    /\ played = <<>>
    /\ last = "reset"
    /\ seq = NoCall
    /\ par = ParIdle
    /\ gameOver = FALSE

InitSearch ==
    /\ board = reset
    /\ line \in {3, 4}
    /\ free = 0
    /\ w \in WeightSets
    /\ played = <<>>
    /\ last = "reset"
    /\ seq = NoCall
    /\ par = ParIdle
    /\ gameOver = FALSE

\* the searches of one line with one set of weights
InitSearchLive ==
    /\ InitSearch
    /\ line = 4
    /\ w = 1

\* the board plays m
Play(m) ==
    /\ board' = move(board, m)
    /\ played' = Append(played, m)

\* the board plays moves[k] if k is an index of moves
PlayFound(moves, k) == k # 0 /\ Play(moves[k])

\* the board plays the move of moves that t names, if there is one
PlayNamed(moves, t) == PlayFound(moves, find_move(moves, t))

\* the next move of the line, if the generator offers it for the side to move
Scripted ==
    /\ free = 0
    /\ par.pc \in {"idle", "done", "aborted"}
    /\ Len(board.history) < Len(Lines[line])
    /\ PlayNamed(gen_moves_for_one_side(board, SideToMove(board)),
                 Lines[line][Len(board.history) + 1])
    /\ last' = "move"
    /\ seq' = NoCall
    /\ par' = ParIdle
    /\ UNCHANGED <<line, free, w, gameOver>>

\* any generated move of the side to move
FreeMove ==
    /\ free < MaxFree
    /\ \E moves \in {gen_moves_for_one_side(board, SideToMove(board))} :
          \E i \in 1..Len(moves) : Play(moves[i])
    /\ free' = free + 1
    /\ last' = "move"
    /\ UNCHANGED <<line, w, seq, par, gameOver>>

\* one call of Board::undo (the undo command of Game::run makes two), also on
\* a board without history
Undo ==
    /\ board' = undo(board)
    /\ played' = SubSeq(played, 1, Len(played) - 1)
    /\ free' = IF free > 0 THEN free - 1 ELSE 0
    /\ last' = "undo"
    /\ UNCHANGED <<line, w, seq, par, gameOver>>

\* min_max(board, d, LOWER_BOUND, UPPER_BOUND, isMax) has returned r; plain
\* records the plain minimax value of the same position
MinMaxReturn(d, isMax, moves, r) ==
    /\ board' = r.board
    /\ seq' = [op |-> "min_max", depth |-> d, isMax |-> isMax, before |-> board,
               val |-> r.val, cuts |-> r.cuts, plies |-> r.plies, nmoves |-> Len(moves),
               plain |-> minimax(w, board, d, isMax)]

\* a call min_max(board, d, LOWER_BOUND, UPPER_BOUND, isMax) with the side s
\* to move
MinMaxOf(d, isMax, s) ==
    \E moves \in {gen_moves_for_one_side(board, s)} :
        /\ SearchOK(moves, gen_moves_for_one_side(board, Other(s)), d)
        /\ MinMaxReturn(d, isMax, moves,
                        min_max(w, board, d, LOWER_BOUND, UPPER_BOUND, isMax))

MinMaxCall ==
    /\ SearchIdle
    /\ \E d \in 0..MaxDepth, isMax \in BOOLEAN :
          MinMaxOf(d, isMax, IF isMax THEN "down" ELSE "upper")
    /\ UNCHANGED <<line, free, w, played, last, par, gameOver>>

\* BestMoveGen::gen_best_for(board, s, d) has returned r; vals[i] is the
\* minimax value at the root of the candidate moves[i]
GenBestReturn(d, s, moves, r, vals) ==
    /\ board' = r.board
    /\ seq' = [op |-> "gen_best_for", depth |-> d, side |-> s, before |-> board,
               move |-> r.move, value |-> r.value, cuts |-> r.cuts, plies |-> r.plies,
               moves |-> moves, vals |-> vals]

\* a call BestMoveGen::gen_best_for(board, s, d)
GenBestCall ==
    /\ SearchIdle
    /\ \E d \in 0..MaxDepth, s \in Sides :
          \E moves \in {gen_moves_for_one_side(board, s)} :
              /\ SearchOK(moves, gen_moves_for_one_side(board, Other(s)), d + 1)
              /\ GenBestReturn(d, s, moves, gen_best_for(w, board, s, d),
                               [i \in 1..Len(moves) |-> RootValue(w, board, s, moves[i], d)])
    /\ UNCHANGED <<line, free, w, played, last, par, gameOver>>

\* the state of the parallel call once split_vector has returned sv, or has
\* run away
ParStart(d, s, moves, sv) ==
    par' = IF sv.oob
           THEN [pc |-> "aborted", side |-> s, depth |-> d, moves |-> moves,
                 launched |-> 0, before |-> board]
           ELSE [pc |-> "launch", side |-> s, depth |-> d, moves |-> moves,
                 chunks |-> sv.chunks,
                 bestMoves |-> [i \in 1..Len(sv.chunks) |-> InvalidMove],
                 bestValues |-> [i \in 1..Len(sv.chunks) |-> 0],
                 found |-> [i \in 1..Len(sv.chunks) |->
                               worker(w, board, s, moves, sv.chunks[i], d)],
                 local |-> [i \in 1..Len(sv.chunks) |-> [move |-> InvalidMove, value |-> 0]],
                 launched |-> 0, searched |-> {}, finished |-> {}, order |-> <<>>,
                 joined |-> 0,
                 before |-> board]

\* BestMoveGenParallel::gen_best_for up to the resize calls: the candidates,
\* the chunks, bestMoves and bestValues value-initialised.  A run-away
\* split_vector never returns: the call ends in "aborted".  found[i] is what
\* the loop of task i finds on a copy of the board of the call; a task takes
\* its result from it when the board it copies is that board.
ParCall ==
    /\ SearchIdle
    /\ \E d \in 0..MaxDepth, s \in Sides :
          \E moves \in {gen_moves_for_one_side(board, s)} :
              /\ SearchOK(moves, gen_moves_for_one_side(board, Other(s)), d + 1)
              /\ ParStart(d, s, moves, split_vector(Len(moves), split_chunk_num))
    /\ UNCHANGED <<board, line, free, w, played, last, seq, gameOver>>

\* one iteration of the loop that creates the tasks with std::async
ParLaunch ==
    /\ par.pc = "launch"
    /\ par' = IF par.launched < Len(par.chunks)
              THEN [par EXCEPT !.launched = @ + 1]
              ELSE [par EXCEPT !.pc = "join"]
    /\ UNCHANGED <<board, line, free, w, played, last, seq, gameOver>>

\* task i may take a step: with at most MaxInterleave tasks at any time
\* after its launch; with more, the model runs it when the root waits for it
\* (the deferred launch policy std::async may choose)
TaskMayStep(i) ==
    /\ par.pc \in {"launch", "join"}
    /\ i <= par.launched
    /\ i \notin par.finished
    /\ Len(par.chunks) <= MaxInterleave \/ (par.pc = "join" /\ i = par.joined + 1)

\* what the loop of task i finds on its copy of the board
task_result(i) ==
    IF board = par.before
    THEN par.found[i]
    ELSE worker(w, board, par.side, par.moves, par.chunks[i], par.depth)

\* task i copies the board and runs its loop over splitMoves[i]
WorkerRun ==
    /\ par.pc \in {"launch", "join"}
    /\ \E i \in 1..par.launched :
          /\ TaskMayStep(i)
          /\ i \notin par.searched
          /\ \E r \in {task_result(i)} :
                par' = [par EXCEPT !.local[i] = [move |-> r.move, value |-> r.value],
                                   !.searched = @ \cup {i}]
    /\ UNCHANGED <<board, line, free, w, played, last, seq, gameOver>>

\* task i stores its two results and ends
WorkerStore ==
    /\ par.pc \in {"launch", "join"}
    /\ \E i \in 1..par.launched :
          /\ TaskMayStep(i)
          /\ i \in par.searched
          /\ par' = [par EXCEPT !.bestMoves[slot(i)] = par.local[i].move,
                                !.bestValues[slot(i)] = par.local[i].value,
                                !.finished = @ \cup {i},
                                !.order = Append(@, i)]
    /\ UNCHANGED <<board, line, free, w, played, last, seq, gameOver>>

\* task.get() returns for the next task
ParJoin ==
    /\ par.pc = "join"
    /\ par.joined < Len(par.chunks)
    /\ task_get(par.finished, par.joined + 1)
    /\ par' = [par EXCEPT !.joined = @ + 1]
    /\ UNCHANGED <<board, line, free, w, played, last, seq, gameOver>>

\* the reduction over bestValues and the return.  rootValue and seqRootValue
\* record the minimax values at the root of the move returned and of the
\* move the sequential gen_best_for returns for the same call
ParReduce ==
    /\ par.pc = "join"
    /\ par.joined = Len(par.chunks)
    /\ \E idx \in {reduce(par.side, par.bestValues)},
          sq \in {gen_best_for(w, board, par.side, par.depth)} :
           par' = [pc |-> "done", side |-> par.side, depth |-> par.depth,
                   moves |-> par.moves, launched |-> par.launched,
                   before |-> par.before, order |-> par.order,
                   chunks |-> par.chunks, finished |-> par.finished,
                   move |-> par.bestMoves[idx], value |-> par.bestValues[idx],
                   rootValue |-> RootValue(w, board, par.side, par.bestMoves[idx], par.depth),
                   seqMove |-> sq.move, seqValue |-> sq.value,
                   seqRootValue |-> RootValue(w, board, par.side, sq.move, par.depth)]
    /\ UNCHANGED <<board, line, free, w, played, last, seq, gameOver>>

\* the lines of input a game is played with: moves of the user's pieces that
\* the generator may or may not offer, moves of Elysia's pieces, lines that
\* are not moves
Text(f1, r1, f2, r2) == <<CH_a + f1 - 1, CH_0 + r1, CH_a + f2 - 1, CH_0 + r2>>

InputPool ==
    {Text(5, 2, 5, 4), Text(7, 1, 6, 3), Text(5, 4, 5, 5), Text(4, 2, 4, 3),
     Text(5, 2, 5, 5), Text(1, 1, 1, 5), Text(5, 7, 5, 5), Text(4, 8, 4, 8),
     Text(9, 2, 9, 4), <<CH_a + 4, CH_0 + 2, CH_a + 4>>}

\* Game::thinkDepth, cut down to MaxGameDepth
thinkDepth == min(5, MaxGameDepth)

InitGame ==
    /\ board = reset
    /\ line = 1
    /\ free = 0
    /\ w \in WeightSets
    /\ played = <<>>
    /\ last = "reset"
    /\ seq = NoCall
    /\ par = ParIdle
    /\ gameOver = FALSE

\* handle_move(input) has returned h
HandleReturn(input, h) ==
    /\ board' = h.board
    /\ gameOver' = (gameOver \/ h.gameOver)
    /\ played' = IF h.outcome \in {"moved", "Elysia wins"}
                 THEN played \o <<h.mv, h.reply>>
                 ELSE IF h.outcome \in {"You win", "no return"}
                 THEN Append(played, h.mv)
                 ELSE played
    /\ last' = IF h.board = board THEN last ELSE "move"
    /\ seq' = [op |-> "handle_move", input |-> input, before |-> board,
               outcome |-> h.outcome, reply |-> h.reply]

\* a line of input that is none of the commands of Game::run: handle_move.
\* A game is followed for MaxGame moves of the user.
HandleMove ==
    /\ ~gameOver
    /\ Len(board.history) < 2 * MaxGame
    /\ \E input \in InputPool :
          \E promo \in PromotionAnswers(board, input) :
              HandleReturn(input, handle_move(w, board, input, promo, thinkDepth))
    /\ UNCHANGED <<line, free, w, par>>

\* the command undo of Game::run: Board::undo twice
GameUndo ==
    /\ ~gameOver
    /\ board.history # <<>>
    /\ board' = undo(undo(board))
    /\ played' = SubSeq(played, 1, Len(played) - min(2, Len(played)))
    /\ last' = "undo"
    /\ seq' = NoCall
    /\ UNCHANGED <<line, free, w, par, gameOver>>

\* the command remake of Game::run
Remake ==
    /\ ~gameOver
    /\ board.history # <<>>
    /\ board' = reset
    /\ played' = <<>>
    /\ last' = "reset"
    /\ seq' = NoCall
    /\ UNCHANGED <<line, free, w, par, gameOver>>

NextBoard == Scripted \/ FreeMove \/ Undo

NextGame == HandleMove \/ GameUndo \/ Remake

NextSearch ==
    \/ Scripted
    \/ MinMaxCall
    \/ GenBestCall
    \/ ParCall
    \/ ParLaunch
    \/ WorkerRun
    \/ WorkerStore
    \/ ParJoin
    \/ ParReduce

Spec == InitBoard /\ [][NextBoard]_vars

\* board.move(elysiaMove) of Game::handle_move with a move of kind invalid:
\* the default Move that gen_best_for returns when it has no candidate, or
\* that kind on the squares of a generated move
MoveInvalid ==
    /\ \E moves \in {gen_moves_for_one_side(board, SideToMove(board))} :
          \E m \in {InvalidMove}
                   \cup {[moves[i] EXCEPT !.moveType = "invalid"] : i \in 1..Len(moves)} :
              /\ board' = move(board, m)
              /\ seq' = [op |-> "move_invalid", before |-> board, mv |-> m]
    /\ last' = "invalid"
    /\ UNCHANGED <<line, free, w, played, par, gameOver>>

NextInvalid == Scripted \/ Undo \/ MoveInvalid

\* the games in which move is also called with moves of kind invalid
SpecInvalid == InitBoard /\ [][NextInvalid]_vars

\* the games in which pawns capture en passant and promote
InitPawns == InitBoard /\ line \in {1, 6}

SpecPawns == InitPawns /\ [][NextBoard]_vars

\* the games in which the kings and rooks move and castle
InitCastle == InitBoard /\ line \in {2, 5}

SpecCastle == InitCastle /\ [][NextBoard]_vars

SpecSearch == InitSearch /\ [][NextSearch]_vars

SpecGame == InitGame /\ [][NextGame]_vars

\* a board whose playable squares are empty but for the piece p on (r, c),
\* with both castle flags at flag and no en-passant target
LoneBoard(p, r, c, flag) ==
    [data |-> set([i \in 0..147 |->
                      (RowO \o RowO \o RowE \o RowE \o RowE \o RowE
                       \o RowE \o RowE \o RowE \o RowE \o RowO \o RowO
                       \o <<CH_0 + flag, CH_0 + flag, CH_0, CH_0>>)[i + 1]],
                  r, c, p),
     history |-> <<>>]

\* the inputs of the generator for a lone rook: either side's rook on any
\* playable square
InitRook ==
    /\ \E p \in {P_UR, P_DR}, r \in line_begin..line_end, c \in line_begin..line_end,
          flag \in {0, 1} :
          board = LoneBoard(p, r, c, flag)
    /\ line = 1
    /\ free = 0
    /\ w = 1
    /\ played = <<>>
    /\ last = "reset"
    /\ seq = NoCall
    /\ par = ParIdle
    /\ gameOver = FALSE

\* MovesGen::gen_moves_for_one_side for the side of the rook
GenRookMoves ==
    /\ seq.op = "none"
    /\ \E s \in Sides :
          /\ \E r, c \in line_begin..line_end : piece_side(get(board, r, c)) = s
          /\ seq' = [op |-> "gen_moves", side |-> s,
                     moves |-> gen_moves_for_one_side(board, s)]
    /\ UNCHANGED <<board, line, free, w, played, last, par, gameOver>>

NextRook == GenRookMoves

SpecRook == InitRook /\ [][NextRook]_vars

\* the calls of split_vector: a vector of candidates of any length up to
\* MaxVec, split with the cap gen_best_for passes
InitSplit ==
    /\ board = reset
    /\ line = 1
    /\ free = 0
    /\ w = 1
    /\ played = <<>>
    /\ last = "reset"
    /\ \E n \in 0..MaxVec : seq = [op |-> "vector", n |-> n]
    /\ par = ParIdle
    /\ gameOver = FALSE

\* split_vector(vec, split_chunk_num) has returned (or has run away) for a
\* vector of n elements
SplitReturn(n, sv) ==
    seq' = [op |-> "split_vector", n |-> n, oob |-> sv.oob, chunks |-> sv.chunks]

SplitCall ==
    /\ seq.op = "vector"
    /\ SplitReturn(seq.n, split_vector(seq.n, split_chunk_num))
    /\ UNCHANGED <<board, line, free, w, played, last, par, gameOver>>

NextSplit == SplitCall

SpecSplit == InitSplit /\ [][NextSplit]_vars

(***************************************************************************)
(* The text of a move.  The call starts from a text of four characters a-h, *)
(* 1-8, a-h, 1-8 (what is_input_a_move lets through to input_to_move) or   *)
(* from a move between two squares of the playable range (what Game hands  *)
(* to desc_move); input_to_move and desc_move are then applied in turn.    *)
(***************************************************************************)
TextCall(op, input, arg, mv, text) ==
    [op |-> op, input |-> input, arg |-> arg, mv |-> mv, text |-> text]

InitText ==
    /\ board = reset
    /\ line = 1
    /\ free = 0
    /\ w = 1
    /\ played = <<>>
    /\ last = "reset"
    /\ \/ \E c1 \in CH_a..CH_h, c2 \in CH_1..CH_8, c3 \in CH_a..CH_h, c4 \in CH_1..CH_8 :
              seq = TextCall("text", <<c1, c2, c3, c4>>, InvalidMove, InvalidMove, <<>>)
       \/ \E r1 \in line_begin..line_end, c1 \in line_begin..line_end,
              r2 \in line_begin..line_end, c2 \in line_begin..line_end :
              seq = TextCall("move", <<>>, Move3(Pos(r1, c1), Pos(r2, c2), "normal"), InvalidMove, <<>>)
    /\ par = ParIdle
    /\ gameOver = FALSE

\* input_to_move(input) returns: for the text given, or for the text
\* desc_move has made of the move given
InputToMoveCall ==
    /\ seq.op \in {"text", "described"}
    /\ \E input \in {IF seq.op = "text" THEN seq.input ELSE seq.text} :
          \E promo \in PromotionAnswers(board, input) :
              seq' = [seq EXCEPT !.op = IF seq.op = "text" THEN "read" ELSE "described_read",
                                 !.mv = input_to_move(board, input, promo)]
    /\ UNCHANGED <<board, line, free, w, played, last, par, gameOver>>

\* desc_move(mv) returns: for the move given, or for the move input_to_move
\* has read from the text given
DescMoveCall ==
    /\ seq.op \in {"move", "read"}
    /\ seq' = [seq EXCEPT !.op = IF seq.op = "move" THEN "described" ELSE "read_described",
                          !.text = desc_move(IF seq.op = "move" THEN seq.arg ELSE seq.mv)]
    /\ UNCHANGED <<board, line, free, w, played, last, par, gameOver>>

NextText == InputToMoveCall \/ DescMoveCall

SpecText == InitText /\ [][NextText]_vars

(***************************************************************************)
(* The program of part_000 at work: the board is constructed, the sides    *)
(* move in turn with moves of gen_one_side_moves, moves are taken back,    *)
(* and the search is called for the side to move.                          *)
(***************************************************************************)
InitChessBoard ==
    /\ board = ChessBoard
    /\ line \in {2, 7}
    /\ free = 0
    /\ w \in WeightSets
    /\ played = <<>>
    /\ last = "reset"
    /\ seq = NoCall
    /\ par = ParIdle
    /\ gameOver = FALSE

\* main plays mv: the user (PS_DOWN) promotes with cb.move(userMove, P_DQ),
\* every other move is cb.move(mv)
MovePlayed(mv) ==
    /\ board' = IF SideToMove(board) = "down" /\ mv.moveType = "GO_AND_PROMOTE"
                THEN ChessBoard_move_promote(board, mv, P_DQ)
                ELSE ChessBoard_move(board, mv)
    /\ played' = Append(played, mv)
    /\ last' = "move"

\* the next move of the line, if gen_one_side_moves offers it
ScriptedMove ==
    /\ ~gameOver
    /\ free = 0
    /\ Len(board.history) < Len(Lines[line])
    /\ \E moves \in {gen_one_side_moves(board, SideToMove(board))} :
          \E k \in {find_move(moves, Lines[line][Len(board.history) + 1])} :
              k # 0 /\ MovePlayed(moves[k])
    /\ seq' = NoCall
    /\ UNCHANGED <<line, free, w, par, gameOver>>

\* any move of gen_one_side_moves for the side to move
AnyMove ==
    /\ ~gameOver
    /\ free < MaxFree
    /\ \E moves \in {gen_one_side_moves(board, SideToMove(board))} :
          \E i \in 1..Len(moves) : MovePlayed(moves[i])
    /\ free' = free + 1
    /\ seq' = NoCall
    /\ UNCHANGED <<line, w, par, gameOver>>

\* cb.undo().  On a board with history the call reads hist after the
\* pop_back() that ended the node's lifetime: the program reads the node as
\* it was, or, built with a checking run time, is stopped at the read
UndoCall ==
    /\ ~gameOver
    /\ \E read \in (IF board.history = <<>> THEN {TRUE} ELSE BOOLEAN) :
          IF read
          THEN /\ board' = ChessBoard_undo(board)
               /\ played' = SubSeq(played, 1, Len(played) - 1)
               /\ free' = IF free > 0 THEN free - 1 ELSE 0
               /\ last' = "undo"
               /\ UNCHANGED gameOver
          ELSE /\ gameOver' = TRUE
               /\ last' = "stopped"
               /\ UNCHANGED <<board, played, free>>
    /\ seq' = NoCall
    /\ UNCHANGED <<line, w, par>>

\* a search of part_000 is run on the positions of the line, once per
\* position, when its tree has at most MaxLeaves leaves
SearchReady(moves, others, levels) ==
    /\ ~gameOver
    /\ free = 0
    /\ seq.op = "none"
    /\ EstNodes(Len(moves), Len(others), levels) <= MaxLeaves

\* min_max(cb, d, alpha, beta, side) with the bounds of gen_best_move, for
\* the side to move, has returned r
MinMaxCbReturn(d, s, r) ==
    /\ board' = r.cb
    /\ seq' = [op |-> "min_max", depth |-> d, side |-> s, before |-> board,
               value |-> r.value]

MinMaxCbCall ==
    /\ \E d \in 1..MaxDepth, s \in {SideToMove(board)} :
          /\ SearchReady(gen_one_side_moves(board, s),
                         gen_one_side_moves(board, Other(s)), d)
          /\ MinMaxCbReturn(d, s, min_max_cb(w, board, d, FLT_MIN, FLT_MAX, s))
    /\ UNCHANGED <<line, free, w, played, last, par, gameOver>>

\* gen_best_move(cb, side, d) for the side to move has returned r
GenBestMoveReturn(d, s, r) ==
    /\ board' = r.cb
    /\ seq' = [op |-> "gen_best_move", depth |-> d, side |-> s, before |-> board,
               bestMove |-> r.bestMove, calls |-> r.calls]

GenBestMoveCall ==
    /\ \E d \in 0..MaxDepth, s \in {SideToMove(board)} :
          /\ SearchReady(gen_one_side_moves(board, s),
                         gen_one_side_moves(board, Other(s)), d + 1)
          /\ GenBestMoveReturn(d, s, gen_best_move(w, board, s, d))
    /\ UNCHANGED <<line, free, w, played, last, par, gameOver>>

NextChessBoard ==
    ScriptedMove \/ AnyMove \/ UndoCall \/ MinMaxCbCall \/ GenBestMoveCall

SpecChessBoard == InitChessBoard /\ [][NextChessBoard]_vars

(***************************************************************************)
(* The program of part_000 late in a game.  main goes on after a king is   *)
(* taken, so the user can play until Elysia's pieces are few and cannot    *)
(* move.  The positions: the upper king on a8 behind its pawn on b7, a     *)
(* down pawn on b5 or on b6 in front of that pawn, and the down king on a  *)
(* square of the ranks 1 and 2.  Both kings have moved.                    *)
(***************************************************************************)
aiSide == "upper"

searchDepth == 5

EndgameBoard(kr, kc, pr) ==
    [data |-> set(set(set(set([i \in 0..143 |->
                                  (RowO \o RowO \o RowE \o RowE \o RowE \o RowE
                                   \o RowE \o RowE \o RowE \o RowE \o RowO \o RowO)[i + 1]],
                              line_begin, line_begin, P_UK),
                          line_begin + 1, line_begin + 1, P_UP),
                      pr, line_begin + 1, P_DP),
                  kr, kc, P_DK),
     history |-> <<>>,
     canUpperCastle |-> FALSE,
     canDownCastle |-> FALSE,
     enPassantPos |-> Pos(0, 0)]

InitEndgame ==
    /\ \E kr \in (line_end - 1)..line_end, kc \in line_begin..line_end,
          pr \in {line_begin + 2, line_begin + 3} :
          board = EndgameBoard(kr, kc, pr)
    /\ line = 1
    /\ free = 0
    /\ w = 1
    /\ played = <<>>
    /\ last = "reset"
    /\ seq = NoCall
    /\ par = ParIdle
    /\ gameOver = FALSE

\* main has read a move of the user that check_rule accepts: the move is
\* made, gen_best_move(cb, aiSide, searchDepth) is called and cb.move is
\* called with the move it returns
ReplyToUser ==
    /\ free < MaxFree
    /\ \E moves \in {gen_one_side_moves(board, userSide)} :
          \E i \in 1..Len(moves) :
              \E b1 \in {IF moves[i].moveType = "GO_AND_PROMOTE"
                         THEN ChessBoard_move_promote(board, moves[i], P_DQ)
                         ELSE ChessBoard_move(board, moves[i])} :
                  \E r \in {gen_best_move(w, b1, aiSide, searchDepth)} :
                      /\ board' = ChessBoard_move(r.cb, r.bestMove)
                      /\ played' = played \o << moves[i], r.bestMove >>
                      /\ seq' = [op |-> "reply", before |-> b1, after |-> r.cb,
                                 aiMove |-> r.bestMove]
    /\ free' = free + 1
    /\ last' = "move"
    /\ UNCHANGED <<line, w, par, gameOver>>

\* "undo": cb.undo() twice, the nodes read as they were
UndoTwice ==
    /\ board.history # <<>>
    /\ board' = ChessBoard_undo(ChessBoard_undo(board))
    /\ played' = SubSeq(played, 1, Len(played) - 2)
    /\ last' = "undo"
    /\ seq' = NoCall
    /\ UNCHANGED <<line, free, w, par, gameOver>>

NextEndgame == ReplyToUser \/ UndoTwice

SpecEndgame == InitEndgame /\ [][NextEndgame]_vars

\* a step of a parallel call in progress, by the root or by a task
ParStep == ParLaunch \/ ParJoin \/ WorkerStore \/ WorkerRun

\* the parallel root search with the scheduling the code relies on: while a
\* call is in progress the root or one of the tasks goes on.  The loops of the
\* root are finite, a task std::async has launched is run by its thread or,
\* deferred, by the task.get() that waits for it, and the search of a task is
\* finite.
SpecSearchLive == InitSearchLive /\ [][NextSearch]_vars /\ WF_vars(ParStep)


(***************************************************************************)
(* Properties of Board and MovesGen, checked under Spec.                   *)
(***************************************************************************)
OwnPawn(s) == IF s = "upper" THEN P_UP ELSE P_DP

OwnRook(s) == IF s = "upper" THEN P_UR ELSE P_DR

HomeRow(s) == IF s = "upper" THEN line_begin ELSE line_end

CastleFlag(b, s) ==
    IF s = "upper" THEN get_upper_castle_flag(b) ELSE get_down_castle_flag(b)

\* the cells of the 8x8 playable range
Playable(r, c) == r >= line_begin /\ r <= line_end /\ c >= line_begin /\ c <= line_end

\* C1: in every reachable board, for every move that gen_moves_for_one_side
\* produces for either side, move(m) followed by undo() gives back the grid,
\* both castling flags, the en-passant target and the history exactly
MoveUndoRestores ==
    \A s \in Sides : \A ms \in {gen_moves_for_one_side(board, s)} :
        \A i \in 1..Len(ms) : undo(move(board, ms[i])) = board

\* a board that Board::undo has just restored, with an en-passant target
\* active and an en-passant move to play next
MoveUndoRestoresWitness ==
    /\ last = "undo"
    /\ has_chance_to_do_en_passant(board)
    /\ \E ms \in {gen_moves_for_one_side(board, SideToMove(board))} :
          \E i \in 1..Len(ms) : ms[i].moveType = "en_passant"

\* C2: in every reachable board, no move that gen_moves_for_one_side produces
\* has a destination that is an off-board cell or a cell holding a piece of
\* the moving side
GeneratedMovesTargetPlayableCells ==
    \A s \in Sides : \A ms \in {gen_moves_for_one_side(board, s)} :
        \A i \in 1..Len(ms) :
            /\ getp(board, ms[i].to) # P_EO
            /\ piece_side(getp(board, ms[i].to)) # s

\* C3: in every reachable board, every cell of the two-wide border holds the
\* off-board piece and no cell of the 8x8 playable range holds it
BorderStaysOffBoard ==
    \A r \in 0..(width - 1) : \A c \in 0..(width - 1) :
        (get(board, r, c) = P_EO) <=> ~Playable(r, c)

\* C6: a move of kind en_passant is generated for the side to move only in
\* the position that a double-step of an opposing pawn has just produced,
\* that pawn having landed beside a pawn of the side to move (the qualifying
\* double-step); board is always the position that the last move of played
\* has produced
EnPassantOnlyAfterQualifyingDoubleStep ==
    \A ms \in {gen_moves_for_one_side(board, SideToMove(board))} :
        \A i \in 1..Len(ms) :
            ms[i].moveType = "en_passant" =>
                /\ played # <<>>
                /\ played[Len(played)].moveType = "pawn_2_steps"
                /\ LET to == played[Len(played)].to
                   IN  /\ getp(board, to) = OwnPawn(Other(SideToMove(board)))
                       /\ \/ get(board, to.row, to.col - 1) = OwnPawn(SideToMove(board))
                          \/ get(board, to.row, to.col + 1) = OwnPawn(SideToMove(board))

\* the last move played, when board is the position it produced
LastPlayed == played[Len(played)]

\* an enemy pawn stands beside the square the pawn of the last move landed on
EnemyPawnBesideDestination ==
    \E dc \in {-1, 1} :
        get(board, LastPlayed.to.row, LastPlayed.to.col + dc)
            = OwnPawn(Other(piece_side(getp(board, LastPlayed.to))))

\* C16: after a move of kind pawn_2_steps, if an enemy pawn stands on the
\* destination rank in a file next to the pawn's, has_chance_to_do_en_passant
\* is true and en_passant_pos is the square the pawn skipped over; otherwise
\* has_chance_to_do_en_passant is false
DoubleStepArmsSkippedSquare ==
    (last = "move" /\ played # <<>> /\ LastPlayed.moveType = "pawn_2_steps") =>
        IF EnemyPawnBesideDestination
        THEN /\ has_chance_to_do_en_passant(board)
             /\ en_passant_pos(board)
                    = Pos((LastPlayed.from.row + LastPlayed.to.row) \div 2, LastPlayed.from.col)
        ELSE ~has_chance_to_do_en_passant(board)

\* C17: after every call of move, whatever its kind, an en-passant target is
\* active only if that call was a pawn double-step that landed beside an
\* enemy pawn; a target set by one move is gone after the next
NoTargetUnlessQualifyingDoubleStep ==
    (last = "move" /\ played # <<>> /\ has_chance_to_do_en_passant(board)) =>
        /\ LastPlayed.moveType = "pawn_2_steps"
        /\ EnemyPawnBesideDestination

\* the board the last move was played on
BeforeLast == [data |-> board.history[Len(board.history)], history |-> <<>>]

\* the piece the last move moved
MovedPiece == getp(BeforeLast, LastPlayed.from)

GridKeptBut(r, cols) ==
    \A rr \in 0..(width - 1), cc \in 0..(width - 1) :
        (rr # r \/ cc \notin cols) => get(board, rr, cc) = get(BeforeLast, rr, cc)

\* the last move was a castling of the king on column c to column c + 2 * dir
\* with the rook on column rookCol: king and rook have changed places as the
\* castling prescribes and nothing else has changed
Castled(dir, rookCol) ==
    LET r == LastPlayed.from.row
        c == LastPlayed.from.col
    IN  /\ piece_type(MovedPiece) = "king"
        /\ get(board, r, c + 2 * dir) = MovedPiece
        /\ get(BeforeLast, r, rookCol) = OwnRook(piece_side(MovedPiece))
        /\ get(board, r, c + dir) = get(BeforeLast, r, rookCol)
        /\ get(board, r, c) = P_EE
        /\ get(board, r, rookCol) = P_EE
        /\ GridKeptBut(r, {c, c + dir, c + 2 * dir, rookCol})
        /\ CastleFlag(board, Other(piece_side(MovedPiece)))
              = CastleFlag(BeforeLast, Other(piece_side(MovedPiece)))

\* C22: after a move of kind short_castling with the king on (r, c) the king
\* is on (r, c + 2), the rook that was on (r, c + 3) is on (r, c + 1), and
\* (r, c) and (r, c + 3) are empty; after one of kind long_castling the king
\* is on (r, c - 2), the rook that was on (r, c - 4) is on (r, c - 1), and
\* (r, c) and (r, c - 4) are empty; every other cell of the grid and the
\* other side's castle flag are as before
CastlingMovesKingAndRook ==
    (last = "move" /\ played # <<>>) =>
        /\ LastPlayed.moveType = "short_castling" => Castled(1, LastPlayed.from.col + 3)
        /\ LastPlayed.moveType = "long_castling" => Castled(-1, LastPlayed.from.col - 4)

\* a short castling has just been played, after a long castling of the other
\* side
CastlingMovesKingAndRookWitness ==
    /\ last = "move"
    /\ played # <<>>
    /\ LastPlayed.moveType = "short_castling"
    /\ \E k \in 1..Len(played) : played[k].moveType = "long_castling"
    /\ get(board, LastPlayed.from.row, LastPlayed.from.col + 1)
          = OwnRook(piece_side(MovedPiece))

\* the cells of the 12x12 grid other than those at the positions of cells
\* are what they were before the last move
GridKeptExcept(cells) ==
    \A rr \in 0..(width - 1), cc \in 0..(width - 1) :
        Pos(rr, cc) \notin cells => get(board, rr, cc) = get(BeforeLast, rr, cc)

\* both castle flags are what they were before the last move
FlagsKept ==
    /\ get_upper_castle_flag(board) = get_upper_castle_flag(BeforeLast)
    /\ get_down_castle_flag(board) = get_down_castle_flag(BeforeLast)

\* C23: after a move of kind en_passant from (r, c) to (r', c') the capturing
\* pawn is on (r', c'), (r, c) is empty, the cell (r, c') on the rank of the
\* origin in the file of the destination is empty, and every other cell of
\* the grid and both castle flags are as before
EnPassantMovesAndClears ==
    (last = "move" /\ played # <<>> /\ LastPlayed.moveType = "en_passant") =>
        /\ piece_type(MovedPiece) = "pawn"
        /\ getp(board, LastPlayed.to) = MovedPiece
        /\ getp(board, LastPlayed.from) = P_EE
        /\ get(board, LastPlayed.from.row, LastPlayed.to.col) = P_EE
        /\ GridKeptExcept({LastPlayed.from, LastPlayed.to,
                           Pos(LastPlayed.from.row, LastPlayed.to.col)})
        /\ FlagsKept

\* a move of kind en_passant has just been played, one step diagonally
\* forward
EnPassantMovesAndClearsWitness ==
    /\ last = "move"
    /\ played # <<>>
    /\ LastPlayed.moveType = "en_passant"
    /\ LastPlayed.to.col # LastPlayed.from.col
    /\ LastPlayed.to.row # LastPlayed.from.row
    /\ getp(board, LastPlayed.to) \in {P_UP, P_DP}

\* the rank on which the pawns of side s promote
FarRank(s) == IF s = "upper" THEN upper_pawn_promote_row ELSE down_pawn_promote_row

\* the pieces a pawn of side s may promote to
PromotionPieces(s) ==
    IF s = "upper" THEN {P_UR, P_UN, P_UB, P_UQ} ELSE {P_DR, P_DN, P_DB, P_DQ}

\* the indices of the moves of ms with the origin and destination of ms[i]
SameSquares(ms, i) ==
    {j \in 1..Len(ms) : ms[j].from = ms[i].from /\ ms[j].to = ms[i].to}

\* the last move was a promotion: the destination holds the piece the move
\* names, the origin is empty, no en-passant target is active, nothing else
\* has changed
Promoted ==
    /\ MovedPiece = OwnPawn(piece_side(MovedPiece))
    /\ getp(board, LastPlayed.to) = LastPlayed.promoteP
    /\ LastPlayed.promoteP \in PromotionPieces(piece_side(MovedPiece))
    /\ getp(board, LastPlayed.from) = P_EE
    /\ ~has_chance_to_do_en_passant(board)
    /\ GridKeptExcept({LastPlayed.from, LastPlayed.to})
    /\ FlagsKept

\* every move of ms that takes a pawn of side s to its far rank, straight or
\* capturing, is one of exactly four moves with its origin and destination,
\* all promotions, one to each of rook, knight, bishop and queen of s
PromotionsOffered(b, s, ms) ==
    \A i \in 1..Len(ms) :
        (getp(b, ms[i].from) = OwnPawn(s) /\ ms[i].to.row = FarRank(s)) =>
            /\ Cardinality(SameSquares(ms, i)) = 4
            /\ \A j \in SameSquares(ms, i) : ms[j].moveType = "pawn_move_and_promote"
            /\ {ms[j].promoteP : j \in SameSquares(ms, i)} = PromotionPieces(s)

\* C24: after a move of kind pawn_move_and_promote the destination holds the
\* promotion piece of the move (a rook, knight, bishop or queen of the
\* mover), the origin is empty, the en-passant target is cleared and both
\* castle flags and all other cells are as before; and for every pawn move
\* that lands on the far rank the generator offers exactly the four
\* promotions
PromotionPlacesChosenPiece ==
    /\ (last = "move" /\ played # <<>> /\ LastPlayed.moveType = "pawn_move_and_promote")
           => Promoted
    /\ \A s \in Sides : \A ms \in {gen_moves_for_one_side(board, s)} :
           PromotionsOffered(board, s, ms)

\* a pawn has just promoted straight ahead, and the generator had offered
\* for it the four promotions of that move and the four of a capture
PromotionPlacesChosenPieceWitness ==
    /\ last = "move"
    /\ played # <<>>
    /\ LastPlayed.moveType = "pawn_move_and_promote"
    /\ LastPlayed.to.col = LastPlayed.from.col
    /\ LastPlayed.to.row = FarRank(piece_side(MovedPiece))
    /\ \A ms \in {gen_moves_for_one_side(BeforeLast, piece_side(MovedPiece))} :
          \E i, k \in 1..Len(ms) :
              /\ ms[i] = LastPlayed
              /\ Cardinality(SameSquares(ms, i)) = 4
              /\ ms[k].from = LastPlayed.from
              /\ ms[k].to.col # LastPlayed.from.col
              /\ Cardinality(SameSquares(ms, k)) = 4

\* the board on which the first n moves of ms have been played from the
\* initial layout
RECURSIVE Replay(_, _)
Replay(ms, n) == IF n = 0 THEN reset ELSE move(Replay(ms, n - 1), ms[n])

\* C25: undo on a board without history changes nothing, and undo on a board
\* with history removes the last entry and restores the board the last move
\* not yet undone was played on: after any moves and undos the board (grid,
\* flags, en-passant target, history) is the one reached by playing from the
\* initial layout the moves that have not been undone, and after as many
\* undos as moves it is the initial board
UndoRestoresBeforeMove ==
    /\ Len(board.history) = Len(played)
    /\ board = Replay(played, Len(played))
    /\ board.history = <<>> => undo(board) = board

\* undos have taken the board back to the initial layout, from a line of
\* moves or by a call on the board without history
UndoRestoresBeforeMoveWitness ==
    /\ last = "undo"
    /\ played = <<>>
    /\ board = reset
    /\ line = 2

\* C33: Board::move called with a move of kind invalid changes nothing: the
\* grid, the castling flags, the en-passant target and the history stack are
\* what they were before the call; so the board stays the one reached by the
\* real moves not yet undone, and an undo after the call takes back the last
\* real move
InvalidMoveIsNoOp ==
    /\ last = "invalid" => board = seq.before
    /\ Len(board.history) = Len(played)
    /\ board = Replay(played, Len(played))

\* move has been called with a move of kind invalid on a board with an
\* en-passant target set, and the undo that followed has taken back the
\* double step
InvalidMoveIsNoOpWitness ==
    /\ last = "undo"
    /\ seq.op = "move_invalid"
    /\ has_chance_to_do_en_passant(seq.before)
    /\ seq.before.history # <<>>
    /\ board = undo(seq.before)
    /\ played # <<>>

\* the directions in which a piece of the given type slides
SlideDirs(type) ==
    CASE type = "rook" -> {<<-1, 0>>, <<1, 0>>, <<0, -1>>, <<0, 1>>}
      [] type = "bishop" -> {<<-1, -1>>, <<-1, 1>>, <<1, -1>>, <<1, 1>>}
      [] type = "queen" -> {<<-1, 0>>, <<1, 0>>, <<0, -1>>, <<0, 1>>,
                            <<-1, -1>>, <<-1, 1>>, <<1, -1>>, <<1, 1>>}
      [] OTHER -> {}

\* the squares a piece of side s on (r, c) reaches in the direction d: the
\* squares of the 8x8 board that only empty squares separate from (r, c) and
\* that are empty or hold a piece of the other side
RayReach(b, s, r, c, d) ==
    {Pos(r + k * d[1], c + k * d[2]) :
        k \in {k \in 1..(line_end - line_begin) :
                  /\ Playable(r + k * d[1], c + k * d[2])
                  /\ \A j \in 1..(k - 1) : get(b, r + j * d[1], c + j * d[2]) = P_EE
                  /\ \/ get(b, r + k * d[1], c + k * d[2]) = P_EE
                     \/ piece_side(get(b, r + k * d[1], c + k * d[2])) = Other(s)}}

\* the indices of the moves of ms that start on (r, c)
MovesFrom(ms, r, c) == {i \in 1..Len(ms) : ms[i].from = Pos(r, c)}

\* the moves of ms for the rooks, bishops and queens of side s on b are the
\* normal moves to the squares their rays reach, one move per square
SlidersFollowRays(b, s, ms) ==
    \A r \in line_begin..line_end, c \in line_begin..line_end :
        (piece_side(get(b, r, c)) = s /\ SlideDirs(piece_type(get(b, r, c))) # {}) =>
            /\ {ms[i].to : i \in MovesFrom(ms, r, c)}
                  = UNION {RayReach(b, s, r, c, d) : d \in SlideDirs(piece_type(get(b, r, c)))}
            /\ \A i \in MovesFrom(ms, r, c) : ms[i].moveType = "normal"
            /\ \A i, j \in MovesFrom(ms, r, c) : ms[i].to = ms[j].to => i = j

\* C26: for every rook, bishop and queen of every reachable position the
\* generated destinations are, along each of its directions, the empty
\* squares before the first occupied or off-board square, and that first
\* occupied square exactly if it holds an enemy piece
SliderDestinationsAreRays ==
    \A s \in Sides : \A ms \in {gen_moves_for_one_side(board, s)} :
        SlidersFollowRays(board, s, ms)

\* the direction a pawn of side s advances in, and its starting rank
Forward(s) == IF s = "upper" THEN 1 ELSE -1

BeginRank(s) == IF s = "upper" THEN upper_pawn_begin_row ELSE down_pawn_begin_row

PawnKinds == {"normal", "pawn_move_and_promote"}

\* what the position b allows the pawn move m of side s to be
PawnMoveAllowed(b, s, m) ==
    LET f == m.from
        ahead == get(b, f.row + Forward(s), f.col)
    IN  /\ m.moveType = "pawn_2_steps" =>
            /\ f.row = BeginRank(s)
            /\ m.to = Pos(f.row + 2 * Forward(s), f.col)
            /\ ahead = P_EE
            /\ get(b, f.row + 2 * Forward(s), f.col) = P_EE
        /\ m.moveType \in PawnKinds =>
            /\ m.to.row = f.row + Forward(s)
            /\ m.to.col \in {f.col - 1, f.col, f.col + 1}
            /\ m.to.col = f.col => ahead = P_EE
            /\ m.to.col # f.col =>
                  piece_side(getp(b, m.to)) \in Sides \ {s}

PawnsMoveAsAllowed(b, s, ms) ==
    \A i \in 1..Len(ms) :
        getp(b, ms[i].from) = OwnPawn(s) => PawnMoveAllowed(b, s, ms[i])

\* C27: every generated pawn move of kind pawn_2_steps starts on the side's
\* starting rank with both squares ahead empty; every generated pawn move
\* of kind normal or promotion goes one rank forward, straight only onto an
\* empty square and diagonally only onto a square holding an enemy piece
PawnMovesNeedTheirSquares ==
    \A s \in Sides : \A ms \in {gen_moves_for_one_side(board, s)} :
        PawnsMoveAsAllowed(board, s, ms)

\* a position where one pawn has a blocked square ahead and no straight
\* move, another captures diagonally, and a third still has its double step
PawnMovesNeedTheirSquaresWitness ==
    \E s \in Sides : \E ms \in {gen_moves_for_one_side(board, s)} :
        /\ \E r \in line_begin..line_end, c \in line_begin..line_end :
              /\ get(board, r, c) = OwnPawn(s)
              /\ get(board, r + Forward(s), c) \notin {P_EE, P_EO}
              /\ \A i \in MovesFrom(ms, r, c) : ms[i].to.col # c
        /\ \E i \in 1..Len(ms) :
              /\ getp(board, ms[i].from) = OwnPawn(s)
              /\ ms[i].moveType \in PawnKinds
              /\ ms[i].to.col # ms[i].from.col
        /\ \E i \in 1..Len(ms) : ms[i].moveType = "pawn_2_steps"
        /\ \E r \in line_begin..line_end, c \in line_begin..line_end :
              /\ get(board, r, c) = OwnPawn(s)
              /\ r = BeginRank(s)
              /\ get(board, r + Forward(s), c) = P_EE
              /\ get(board, r + 2 * Forward(s), c) # P_EE
              /\ \A i \in MovesFrom(ms, r, c) : ms[i].moveType # "pawn_2_steps"

\* C7: a short (long) castling move is generated for a side only when the
\* side's castling flag is set, every square strictly between the king and
\* the rook origin of that wing is empty and the side's own rook stands on
\* the rook origin
CastlingOnlyWhenAllowed ==
    \A s \in Sides : \A ms \in {gen_moves_for_one_side(board, s)} :
        \A i \in 1..Len(ms) :
            /\ ms[i].moveType = "short_castling" =>
                  /\ CastleFlag(board, s)
                  /\ \A c \in (ms[i].from.col + 1)..(line_end - 1) :
                        get(board, HomeRow(s), c) = P_EE
                  /\ get(board, HomeRow(s), line_end) = OwnRook(s)
            /\ ms[i].moveType = "long_castling" =>
                  /\ CastleFlag(board, s)
                  /\ \A c \in (line_begin + 1)..(ms[i].from.col - 1) :
                        get(board, HomeRow(s), c) = P_EE
                  /\ get(board, HomeRow(s), line_begin) = OwnRook(s)

\* a board in which a short castling is generated for upper while down,
\* having castled, has its flag cleared and its short wing still open
CastlingOnlyWhenAllowedWitness ==
    /\ ~get_down_castle_flag(board)
    /\ view_eq(board, down_king_start_pos + 1, <<P_EE, P_EE, P_DR>>)
    /\ \E ms \in {gen_moves_for_one_side(board, "upper")} :
          \E i \in 1..Len(ms) : ms[i].moveType = "short_castling"

\* C36: every move of kind en_passant that gen_moves_for_one_side emits for
\* the side to move, from (r, c) to (r', c'), has an empty square of the
\* playable range as destination, and the cell (r, c') that move will clear
\* holds a pawn of the other side, the pawn that the last move played took
\* two steps forward
EnPassantTakesDoubleSteppedPawn ==
    \A ms \in {gen_moves_for_one_side(board, SideToMove(board))} :
        \A i \in 1..Len(ms) :
            ms[i].moveType = "en_passant" =>
                /\ Playable(ms[i].to.row, ms[i].to.col)
                /\ getp(board, ms[i].to) = P_EE
                /\ get(board, ms[i].from.row, ms[i].to.col)
                      = OwnPawn(Other(SideToMove(board)))
                /\ played # <<>>
                /\ LastPlayed.moveType = "pawn_2_steps"
                /\ LastPlayed.to = Pos(ms[i].from.row, ms[i].to.col)

\* C35: in every reachable board no upper pawn stands on row 9 and no down
\* pawn on row 2: a pawn that reaches its promotion rank is replaced there;
\* so the square in front of every pawn, which the generator reads, is a
\* square of the playable range
NoPawnOnPromotionRank ==
    /\ \A c \in line_begin..line_end :
          /\ get(board, upper_pawn_promote_row, c) # P_UP
          /\ get(board, down_pawn_promote_row, c) # P_DP
    /\ \A s \in Sides, r \in line_begin..line_end, c \in line_begin..line_end :
          get(board, r, c) = OwnPawn(s) => Playable(r + Forward(s), c)

\* a pawn has just moved to its promotion rank, capturing, and the square
\* it landed on holds the piece of the promotion
NoPawnOnPromotionRankWitness ==
    /\ last = "move"
    /\ played # <<>>
    /\ MovedPiece \in {P_UP, P_DP}
    /\ LastPlayed.to.row = FarRank(piece_side(MovedPiece))
    /\ LastPlayed.to.col # LastPlayed.from.col
    /\ getp(board, LastPlayed.to) \in PromotionPieces(piece_side(MovedPiece))

OwnKing(s) == IF s = "upper" THEN P_UK ELSE P_DK

\* the index in the string of the initial square of the king of side s
KingStart(s) == IF s = "upper" THEN upper_king_start_pos ELSE down_king_start_pos

\* C34: in every reachable board a side whose castling flag is set has its
\* king, if the king is on the board, on the king's initial square (row 2
\* col 6 for upper, row 9 col 6 for down); and every castling move generated
\* starts on that square, where the side's king stands, and has the side's
\* rook on the corner of the back rank on the wing of the castling
FlagSetKingAtHome ==
    \A s \in Sides :
        /\ CastleFlag(board, s) =>
              \A r \in line_begin..line_end, c \in line_begin..line_end :
                  get(board, r, c) = OwnKing(s) => r * width + c = KingStart(s)
        /\ KingStart(s) = HomeRow(s) * width + 6
        /\ \A ms \in {gen_moves_for_one_side(board, s)} :
              \A i \in 1..Len(ms) :
                  ms[i].moveType \in {"short_castling", "long_castling"} =>
                      /\ ms[i].from.row * width + ms[i].from.col = KingStart(s)
                      /\ getp(board, ms[i].from) = OwnKing(s)
                      /\ get(board, HomeRow(s),
                             IF ms[i].moveType = "short_castling"
                             THEN line_end ELSE line_begin) = OwnRook(s)

\* a board that undo has restored, on which both kings stand on their
\* initial squares with their flags set and a castling is generated for down
FlagSetKingAtHomeWitness ==
    /\ last = "undo"
    /\ get_down_castle_flag(board)
    /\ board.data[down_king_start_pos] = P_DK
    /\ get_upper_castle_flag(board)
    /\ board.data[upper_king_start_pos] = P_UK
    /\ board.history # <<>>
    /\ \E ms \in {gen_moves_for_one_side(board, "down")} :
          \E i \in 1..Len(ms) : ms[i].moveType \in {"short_castling", "long_castling"}

(***************************************************************************)
(* Properties of the searches, checked under SpecSearch.                   *)
(***************************************************************************)
\* C4: min_max called with the full window returns the value of the same
\* recursion without the cut-off (plain minimax with the same sentinels)
AlphaBetaEqualsMinimax ==
    seq.op = "min_max" => seq.val = seq.plain

\* a call of depth at least 2 in which the cut-off left untried moves, on a
\* position with several moves and a value strictly between the sentinels
AlphaBetaEqualsMinimaxWitness ==
    /\ seq.op = "min_max"
    /\ seq.depth >= 2
    /\ seq.nmoves >= 2
    /\ seq.cuts > 0
    /\ seq.val > LOWER_BOUND
    /\ seq.val < UPPER_BOUND

\* C5: when the side has at least one candidate, the move the parallel
\* gen_best_for returns has the minimax value at the root of the move the
\* sequential gen_best_for returns, whatever the order the workers end in
ParallelValueEqualsSequential ==
    (par.pc = "done" /\ Len(par.moves) >= 1) =>
        /\ par.rootValue = par.seqRootValue
        /\ par.value = par.seqValue

\* a call with several workers of which the first launched was not the
\* first to end
ParallelValueEqualsSequentialWitness ==
    /\ par.pc = "done"
    /\ Len(par.order) >= 2
    /\ par.order[1] # 1
    /\ par.depth >= 1

\* C37: when the side has at least one candidate, the move the parallel
\* gen_best_for returns is the move the sequential gen_best_for returns for
\* the same board, side and depth, with the same origin, destination, kind
\* and promotion piece, whatever the order the workers end in; it is one of
\* the candidates
ParallelMoveEqualsSequential ==
    (par.pc = "done" /\ Len(par.moves) >= 1) =>
        /\ par.move = par.seqMove
        /\ \E i \in 1..Len(par.moves) : par.move = par.moves[i]

\* a call of depth one or more with several workers, of which the first
\* launched was not the first to end, that returns a move of a later chunk
\* while a candidate of an earlier chunk has the same value at the root
ParallelMoveEqualsSequentialWitness ==
    /\ par.pc = "done"
    /\ par.depth >= 1
    /\ Len(par.order) >= 2
    /\ par.order[1] # 1
    /\ \E i, j \in 1..Len(par.chunks) :
          /\ i < j
          /\ \E k \in par.chunks[j][1]..par.chunks[j][2] : par.moves[k] = par.move
          /\ \E k \in par.chunks[i][1]..par.chunks[i][2] :
                RootValue(w, par.before, par.side, par.moves[k], par.depth) = par.rootValue

\* C8: min_max called with depth 0 returns evaluate of the board as passed
\* and leaves grid, flags, en-passant target and history as they were
DepthZeroIsEvaluate ==
    (seq.op = "min_max" /\ seq.depth = 0) =>
        /\ seq.val = evaluate(w, seq.before)
        /\ board = seq.before

\* a call of depth 0 on a position with moves to play and an uneven score
DepthZeroIsEvaluateWitness ==
    /\ seq.op = "min_max"
    /\ seq.depth = 0
    /\ seq.nmoves > 0
    /\ seq.val # 0

\* C9: with zero moves for the side, the sequential gen_best_for returns
\* the Move of kind invalid and leaves the board and its history unchanged;
\* min_max at a node with zero moves returns LOWER_BOUND when maximizing,
\* UPPER_BOUND when minimizing, and leaves the board unchanged
NoMovesReturnsSentinel ==
    /\ (seq.op = "gen_best_for" /\ seq.moves = <<>>) =>
          /\ seq.move.moveType = "invalid"
          /\ board = seq.before
    /\ (seq.op = "min_max" /\ seq.depth > 0 /\ seq.nmoves = 0) =>
          /\ seq.val = (IF seq.isMax THEN LOWER_BOUND ELSE UPPER_BOUND)
          /\ board = seq.before

\* a call of the sequential gen_best_for for a side without moves, on a
\* board with a history
NoMovesReturnsSentinelWitness ==
    /\ seq.op = "gen_best_for"
    /\ seq.moves = <<>>
    /\ seq.depth >= 1
    /\ board.history # <<>>

\* C10: with zero moves for the side, the parallel gen_best_for ends,
\* launches no worker and returns the Move of kind invalid
ParallelNoMovesReturnsSentinel ==
    (par.pc \in {"done", "aborted"} /\ par.moves = <<>>) =>
        /\ par.pc = "done"
        /\ par.launched = 0
        /\ par.move.moveType = "invalid"


\* C12: min_max and gen_best_for undo every move they make, also when the
\* loop is left by the cut-off: every position handed to evaluate lies as many
\* moves past the caller's board as plies were descended, and when the call
\* returns the caller's board (grid, flags, en-passant target, history) is what
\* it was at the call
SearchRestoresBoard ==
    /\ seq.op = "min_max" =>
          /\ board = seq.before
          /\ seq.plies \subseteq {Len(seq.before.history) + seq.depth}
    /\ seq.op = "gen_best_for" =>
          /\ board = seq.before
          /\ seq.plies \subseteq {Len(seq.before.history) + seq.depth + 1}

\* a root search of depth two or more that evaluated positions and left
\* loops by the cut-off
SearchRestoresBoardWitness ==
    /\ seq.op = "gen_best_for"
    /\ seq.depth >= 2
    /\ seq.cuts > 0
    /\ seq.plies # {}
    /\ Len(seq.moves) >= 2
    /\ board = seq.before

\* the destinations of the moves of a sequence
Destinations(moves) == {moves[i].to : i \in 1..Len(moves)}

\* C15: for a rook alone on an otherwise empty board, on any square, the
\* generator yields exactly 14 moves, all of type normal, all from the rook's
\* square, whose destinations are the other squares of its rank and of its
\* file
LoneRookFourteenMoves ==
    seq.op = "gen_moves" =>
        \A r, c \in line_begin..line_end :
            get(board, r, c) = OwnRook(seq.side) =>
                /\ Len(seq.moves) = 14
                /\ \A i \in 1..Len(seq.moves) :
                      /\ seq.moves[i].moveType = "normal"
                      /\ seq.moves[i].from = Pos(r, c)
                      /\ seq.moves[i].promoteP = P_EO
                /\ Destinations(seq.moves) =
                      ({Pos(r, k) : k \in line_begin..line_end}
                       \cup {Pos(k, c) : k \in line_begin..line_end}) \ {Pos(r, c)}

\* the moves of a rook in a corner and of a rook off the edges
LoneRookFourteenMovesWitness ==
    /\ seq.op = "gen_moves"
    /\ Len(seq.moves) > 0
    /\ \/ get(board, line_end, line_end) = P_UR
       \/ get(board, line_begin + 3, line_begin + 4) = P_DR

\* the candidate i of the last gen_best_for has the extremal value: the
\* smallest for upper, the largest for down
Extremal(i) ==
    \A j \in 1..Len(seq.moves) :
        IF seq.side = "upper" THEN seq.vals[i] <= seq.vals[j] ELSE seq.vals[i] >= seq.vals[j]

\* C19: gen_best_for returns, of the candidates whose minimax value is the
\* extremal one (the minimum for upper, the maximum for down), the last in
\* the order of gen_moves_for_one_side
LastExtremalCandidateReturned ==
    (seq.op = "gen_best_for" /\ seq.moves # <<>>) =>
        \E i \in 1..Len(seq.moves) :
            /\ Extremal(i)
            /\ \A j \in (i + 1)..Len(seq.moves) : ~Extremal(j)
            /\ seq.move = seq.moves[i]
            /\ seq.value = seq.vals[i]

\* a search of depth one or more in which several candidates have the
\* extremal value and the move returned differs from the first of them
LastExtremalCandidateReturnedWitness ==
    /\ seq.op = "gen_best_for"
    /\ seq.depth >= 1
    /\ \E i, j \in 1..Len(seq.moves) :
          /\ i < j
          /\ Extremal(i)
          /\ Extremal(j)
          /\ seq.moves[i] # seq.moves[j]
          /\ seq.move = seq.moves[j]

\* C20: gen_best_for(board, side, d) with d >= 1 searches each candidate with
\* min_max at depth d - 1: every position it hands to evaluate lies exactly d
\* moves past the board of the call
RootHorizonIsDepth ==
    (seq.op = "gen_best_for" /\ seq.depth >= 1) =>
        seq.plies \subseteq {Len(seq.before.history) + seq.depth}

\* C21: for a vector of n >= 1 candidates split_vector returns min(32, n)
\* chunks; each is a non-empty run of consecutive indices, the first starts
\* at the first candidate, each next one starts right after the one before
\* and the last ends at the last candidate, so the chunks in order are the
\* vector and every candidate lies in exactly one chunk
SplitIsPartition ==
    (seq.op = "split_vector" /\ seq.n >= 1) =>
        /\ ~seq.oob
        /\ Len(seq.chunks) = min(split_chunk_num, seq.n)
        /\ \A i \in 1..Len(seq.chunks) : seq.chunks[i][1] <= seq.chunks[i][2]
        /\ seq.chunks[1][1] = 1
        /\ seq.chunks[Len(seq.chunks)][2] = seq.n
        /\ \A i \in 1..(Len(seq.chunks) - 1) : seq.chunks[i + 1][1] = seq.chunks[i][2] + 1
        /\ \A k \in 1..seq.n :
              Cardinality({i \in 1..Len(seq.chunks) :
                              seq.chunks[i][1] <= k /\ k <= seq.chunks[i][2]}) = 1

\* a vector longer than the cap whose length is no multiple of it: the last
\* chunk is longer than the others
SplitIsPartitionWitness ==
    /\ seq.op = "split_vector"
    /\ seq.n > 2 * split_chunk_num
    /\ seq.n % split_chunk_num # 0
    /\ Len(seq.chunks) = split_chunk_num
    /\ seq.chunks[1][2] - seq.chunks[1][1] = 1
    /\ seq.chunks[split_chunk_num][2] - seq.chunks[split_chunk_num][1] > 1

\* C28: a text of four characters a-h, 1-8, a-h, 1-8 is read by
\* input_to_move as coordinates of the playable range and desc_move of the
\* move read is the text again; the text desc_move makes of a move between
\* two playable squares is read by input_to_move as the same from and to
TextRoundTrips ==
    /\ seq.op \in {"read", "read_described"} =>
          /\ Playable(seq.mv.from.row, seq.mv.from.col)
          /\ Playable(seq.mv.to.row, seq.mv.to.col)
    /\ seq.op = "read_described" => seq.text = seq.input
    /\ seq.op = "described_read" =>
          /\ seq.mv.from = seq.arg.from
          /\ seq.mv.to = seq.arg.to

\* h1a8 read and described back: the corner squares (9,9) and (2,2)
TextRoundTripsWitness ==
    /\ seq.op = "read_described"
    /\ seq.input = <<CH_h, CH_1, CH_a, CH_8>>
    /\ seq.mv.from = Pos(line_end, line_end)
    /\ seq.mv.to = Pos(line_begin, line_begin)

\* the neighbouring squares of (r, c) on the 8x8 board that are empty or hold
\* a piece of the other side
KingReach(b, s, r, c) ==
    {Pos(r + dr, c + dc) :
        <<dr, dc>> \in {d \in (-1..1) \X (-1..1) :
                          /\ d # <<0, 0>>
                          /\ Playable(r + d[1], c + d[2])
                          /\ \/ get(b, r + d[1], c + d[2]) = P_EE
                             \/ piece_side(get(b, r + d[1], c + d[2])) = Other(s)}}

\* the moves of ms that are no castles
NonCastling(ms) ==
    LET plain(m) == m.moveType \in {"normal", "NORMAL"}
    IN  SelectSeq(ms, plain)

\* ms holds, for the king of side s on (r, c), one move to each square of
\* KingReach and no other move
KingMovesAreReach(b, s, r, c, ms) ==
    /\ {ms[i].to : i \in 1..Len(ms)} = KingReach(b, s, r, c)
    /\ \A i \in 1..Len(ms) : ms[i].from = Pos(r, c)
    /\ \A i, j \in 1..Len(ms) : ms[i].to = ms[j].to => i = j

\* the moves of the eight calls of king_steps are as KingMovesAreReach says,
\* for every king on the grid of b
KingStepsAreReach(b) ==
    \A r \in line_begin..line_end, c \in line_begin..line_end :
        piece_type(get(b, r, c)) = "king" =>
            KingMovesAreReach(b, piece_side(get(b, r, c)), r, c,
                              NonCastling(king_neighbours(b, Pos(r, c), <<>>)))

\* the same for gen_moves_king of part_000
GenMovesKingAreReach(b) ==
    \A r \in line_begin..line_end, c \in line_begin..line_end :
        piece_type(get(b, r, c)) = "king" =>
            KingMovesAreReach(b, piece_side(get(b, r, c)), r, c,
                              NonCastling(gen_moves_king(b, Pos(r, c))))

\* C31: for the kings of every reachable position the non-castling moves
\* generated are one move to each of the 8 neighbouring squares that is
\* empty or enemy-occupied, each once, and no move to an off-board or a
\* friendly square; for king_steps and for gen_moves_king of part_000
KingMovesAreTheEightNeighbours ==
    KingStepsAreReach(board) /\ GenMovesKingAreReach(board)

\* the grid, the two castle flags and the en-passant position of a and b are
\* the same
SameChessBoard(a, b) ==
    /\ a.data = b.data
    /\ a.canUpperCastle = b.canUpperCastle
    /\ a.canDownCastle = b.canDownCastle
    /\ a.enPassantPos = b.enPassantPos

\* C29: in every reachable ChessBoard of part_000, for every move of
\* gen_one_side_moves for either side, move(m) followed by undo() gives back
\* the grid, canUpperCastle, canDownCastle and enPassantPos; and when
\* gen_best_move has returned, the two flags and enPassantPos are what they
\* were at the call
ChessBoardUndoRestores ==
    /\ \A s \in Sides : \A ms \in {gen_one_side_moves(board, s)} :
          \A i \in 1..Len(ms) :
              SameChessBoard(ChessBoard_undo(ChessBoard_move(board, ms[i])), board)
    /\ seq.op = "gen_best_move" =>
          /\ board.canUpperCastle = seq.before.canUpperCastle
          /\ board.canDownCastle = seq.before.canDownCastle
          /\ board.enPassantPos = seq.before.enPassantPos

\* C30: the value min_max of part_000 returns, called with alpha =
\* numeric_limits<float>::min() and beta = numeric_limits<float>::max() as
\* gen_best_move calls it, is the minimax value of the position it was
\* called on, for the depth and the side of the call
MinMaxCbIsMinimax ==
    /\ seq.op = "min_max" =>
          seq.value = minimax_cb(w, seq.before, seq.depth, seq.side)
    /\ seq.op = "gen_best_move" =>
          \A i \in 1..Len(seq.calls) :
              seq.calls[i].value
                  = minimax_cb(w, seq.calls[i].cb, seq.depth, Other(seq.side))

\* every cell of the border of the grid of b holds the off-board piece
BorderOffBoard(b) ==
    \A r \in 0..(width - 1), c \in 0..(width - 1) :
        ~Playable(r, c) => get(b, r, c) = P_EO

RunningTasks == (1..par.launched) \ par.finished

AllJoined == par.pc = "done" \/ (par.pc = "join" /\ par.joined = Len(par.chunks))

\* C14: in a parallel root search with at least one candidate every task
\* launched runs to its end and the root gets past every task.get(); the root
\* is past task.get() on a task, and in the reduction and the return past all
\* of them, only when the tasks concerned have ended
WorkersAllComplete ==
    /\ [](par.pc = "join" => (1..par.joined) \subseteq par.finished)
    /\ [](AllJoined => par.finished = 1..Len(par.chunks))
    /\ (par.pc \in {"launch", "join"}) ~> AllJoined

\* a call with several tasks has returned, and the tasks did not end in the
\* order of their launch
WorkersAllCompleteWitness ==
    /\ par.pc = "done"
    /\ Len(par.chunks) >= 2
    /\ par.finished = 1..Len(par.chunks)
    /\ \E k \in 1..(Len(par.order) - 1) : par.order[k] > par.order[k + 1]
    /\ par.move # InvalidMove
    /\ board.history # <<>>

(***************************************************************************)
(* Properties of Game, checked under SpecGame.                             *)
(***************************************************************************)
\* the squares a move goes from and to, as input_to_move reads them
MovePos(m) == <<m.from.row, m.from.col, m.to.row, m.to.col>>

\* C11: when handle_move is given a well-formed textual move whose (from, to)
\* pair is not among the moves gen_moves_for_one_side produces for the
\* user's side, the move is reported invalid, the board (grid, flags,
\* en-passant target, history) is what it was and Elysia makes no move
RejectedMoveLeavesBoard ==
    (seq.op = "handle_move" /\ is_input_a_move(seq.input)) =>
        \A ms \in {gen_moves_for_one_side(seq.before, userSide)} :
            (\A i \in 1..Len(ms) : MovePos(ms[i]) # input_to_pos(seq.input)) =>
                /\ seq.outcome = "invalid move"
                /\ board = seq.before
                /\ seq.reply = InvalidMove
                /\ gameOver = FALSE

\* a move of one of Elysia's pieces is asked for in the middle of a game and
\* is rejected
RejectedMoveLeavesBoardWitness ==
    /\ seq.op = "handle_move"
    /\ seq.outcome = "invalid move"
    /\ board.history # <<>>
    /\ piece_side(get(board, input_to_pos(seq.input)[1], input_to_pos(seq.input)[2])) = elysiaSide

=============================================================================
